---- MODULE Spec2Model ----
(***************************************************************************)
(* A model of the federation engine of the microblog server: the actor     *)
(* directory, the follow graph, the inbox listeners, the mention /         *)
(* notification pipeline and the post-creation route.                      *)
(*                                                                         *)
(* Text is modelled as a sequence of one-character strings, a URI as a     *)
(* record (host, path, identifier), a nullable value as a sequence of      *)
(* length 0 (null) or 1, and a database table as a set or (where the       *)
(* insertion order is observable) a sequence of rows.                      *)
(***************************************************************************)
EXTENDS Integers, Sequences, FiniteSets, TLC

VARIABLES
  users,          \* table users: rows [id, username]
  actors,         \* table actors
  follows,        \* table follows, in insertion order (follows.created)
  posts,          \* table posts
  mentions,       \* table mentions
  notifications,  \* table notifications
  sent,           \* activities handed to ctx.sendActivity by the last request
  last,           \* the last request handled: its inputs and how it ended
  runs,           \* calls of the mention functions and requests of the routes in flight
  call,           \* the last call of parseMentions or findMentionedUsers: input and result
  keys,           \* table keys
  dispatches,     \* in-flight calls of the key-pairs dispatcher
  requested,      \* history: the (user, actor URI) pairs the follow route sent a Follow for
  sqlite_sequence \* the highest id table notifications has handed out (AUTOINCREMENT)

tables == <<users, actors, follows, posts, mentions, notifications, sqlite_sequence>>
more == <<keys, dispatches, requested>>
vars == <<users, actors, follows, posts, mentions, notifications, sent, last, runs, call,
          keys, dispatches, requested, sqlite_sequence>>

----------------------------------------------------------------------------
(* Nullable values *)

None == <<>>
Some(x) == <<x>>
Get(o) == o[1]

(* Sequence helpers *)

Range(s) == {s[i] : i \in 1..Len(s)}

RECURSIVE SelectSeqBy(_, _)
\* The subsequence of s whose indices are in keep (Array.prototype.filter).
SelectSeqBy(s, keep) ==
  IF s = <<>> THEN <<>>
  ELSE LET n == Len(s)
           front == SelectSeqBy(SubSeq(s, 1, n - 1), keep)
       IN IF n \in keep THEN Append(front, s[n]) ELSE front

\* the sequence without its i-th element
Without(s, i) == SubSeq(s, 1, i - 1) \o SubSeq(s, i + 1, Len(s))

----------------------------------------------------------------------------
(* Bounds of the model *)

\* the follows table holds at most MaxEdges rows
MaxEdges == 2
\* the posts table holds at most MaxPosts rows
MaxPosts == 2
\* the mentions and notifications tables hold at most MaxRows rows each
MaxRows == 3
\* at most MaxRuns calls of the mention functions are in flight
MaxRuns == 2
\* the texts given to parseMentions have at most MaxPieces pieces
MaxPieces == 6
\* the lists given to findMentionedUsers have at most MaxTokens tokens
MaxTokens == 2
\* at most MaxDispatches calls of the key-pairs dispatcher are made
MaxDispatches == 3
\* table notifications hands out at most MaxIds ids
MaxIds == 3

----------------------------------------------------------------------------
(* URIs and the actors of the scenario *)

Host == <<"l", ".", "c", "c">>
RemoteHost == <<"r", ".", "i", "o">>

Uri(host, path, identifier) == [host |-> host, path |-> path, identifier |-> identifier]

\* ctx.getActorUri(identifier), ctx.getInboxUri(identifier), ctx.getInboxUri()
getActorUri(identifier) == Uri(Host, "users", identifier)
getInboxUri(identifier) == Uri(Host, "inbox", identifier)
getSharedInboxUri == Uri(Host, "inbox", <<>>)

\* a parse that takes every URI of this server for an actor URI
parseUri_AnyRoute(uri) ==
  IF uri = None THEN None
  ELSE IF Get(uri).host # Host THEN None
  ELSE Some([type |-> "actor", identifier |-> Get(uri).identifier])

\* ctx.parseUri(uri): the route and identifier of a URI of this server, else null
parseUri(uri) ==
  IF uri = None THEN None
  ELSE IF Get(uri).host # Host THEN None
  ELSE IF Get(uri).path = "users"
    THEN Some([type |-> "actor", identifier |-> Get(uri).identifier])
  ELSE IF Get(uri).path = "inbox"
    THEN Some([type |-> "inbox", identifier |-> Get(uri).identifier])
  ELSE None

Alice == <<"a">>
Bob == <<"b">>
Zed == <<"z">>
\* the user that registers first where the routes behind authMiddleware are
\* used by the others
Kim == <<"k">>
Usernames == {Alice, Bob}

CarolUri == Uri(RemoteHost, "users", <<"c">>)
EveUri == Uri(RemoteHost, "users", <<"e">>)

\* Remote actor documents as fetched by getActor() / getAttribution()
Carol1 ==
  [id |-> Some(CarolUri), preferredUsername |-> Some(<<"c">>),
   name |-> Some("Carol"), inboxId |-> Some(Uri(RemoteHost, "inbox", <<"c">>)),
   sharedInbox |-> Some(Uri(RemoteHost, "inbox", <<>>)),
   url |-> Some(Uri(RemoteHost, "@", <<"c">>))]
Carol2 ==
  [id |-> Some(CarolUri), preferredUsername |-> Some(<<"k">>),
   name |-> None, inboxId |-> Some(Uri(RemoteHost, "in", <<"c">>)),
   sharedInbox |-> None, url |-> None]
CarolNoInbox == [Carol1 EXCEPT !.inboxId = None]
\* Eve's handle is the handle of Carol2
Eve ==
  [id |-> Some(EveUri), preferredUsername |-> Some(<<"k">>),
   name |-> Some("Eve"), inboxId |-> Some(Uri(RemoteHost, "inbox", <<"e">>)),
   sharedInbox |-> None, url |-> None]

RemoteDescriptors == {Carol1, Carol2, CarolNoInbox, Eve}

\* a document that carries no id
CarolNoId == [Carol1 EXCEPT !.id = None]

----------------------------------------------------------------------------
(* Read paths *)

NextId(rows) == IF rows = {} THEN 1 ELSE 1 + CHOOSE m \in {r.id : r \in rows} : \A r \in rows : r.id <= m

\* select * from users where username = ...  (executeTakeFirst)
UserByUsername(us, username) ==
  LET found == {u \in us : u.username = username}
  IN IF found = {} THEN None ELSE Some(CHOOSE u \in found : TRUE)

\* select * from actors where user_id = ...
ActorByUserId(as, userId) ==
  LET found == {r \in as : r.user_id = Some(userId)}
  IN IF found = {} THEN None ELSE Some(CHOOSE r \in found : TRUE)

\* select * from actors where uri = ...
ActorByUri(as, uri) ==
  LET found == {r \in as : r.uri = uri}
  IN IF found = {} THEN None ELSE Some(CHOOSE r \in found : TRUE)

\* select * from actors where handle = ...
ActorByHandle(as, handle) ==
  LET found == {r \in as : r.handle = handle}
  IN IF found = {} THEN None ELSE Some(CHOOSE r \in found : TRUE)

\* actors inner join users on users.id = actors.user_id where users.username = ...
ActorByUsername(us, as, username) ==
  LET u == UserByUsername(us, username)
  IN IF u = None THEN None ELSE ActorByUserId(as, Get(u).id)

\* selectAll() over a join of two tables, the second one joined to the first:
\* one object per row, keyed by column name, so a column of the second table
\* replaces the column of the first with the same name
SelectAllJoined(u, a) ==
  [k \in DOMAIN u \cup DOMAIN a |-> IF k \in DOMAIN a THEN a[k] ELSE u[k]]

\* actors inner join users ... selectAll() where users.username = ...: the row
\* of the actor with the columns of the user on top, its id the id of the user
ActorWithUser(us, as, username) ==
  LET u == UserByUsername(us, username)
      a == ActorByUsername(us, as, username)
  IN IF u = None \/ a = None THEN None ELSE Some(SelectAllJoined(Get(a), Get(u)))

HasEdge(fs, followingId, followerId) ==
  \E i \in 1..Len(fs) : fs[i].following_id = followingId /\ fs[i].follower_id = followerId

\* the number of rows of follows for the pair
EdgeCount(fs, followingId, followerId) ==
  Cardinality({i \in 1..Len(fs) :
                 fs[i].following_id = followingId /\ fs[i].follower_id = followerId})

\* The actor document the actor dispatcher serves for a local user
ActorDoc(us, as, identifier) ==
  LET a == ActorByUsername(us, as, identifier)
  IN IF a = None THEN None
     ELSE Some([id |-> Some(getActorUri(identifier)),
                preferredUsername |-> Some(identifier),
                name |-> Get(a).name,
                inboxId |-> Some(getInboxUri(identifier)),
                sharedInbox |-> Some(getSharedInboxUri),
                url |-> Some(getActorUri(identifier))])

----------------------------------------------------------------------------
(* ActorDirectory: persistActor *)

\* actors.updated: the column's default, CURRENT_TIMESTAMP, or the time
\* on(Update) writes, new Date().toISOString()
DefaultUpdated == "CURRENT_TIMESTAMP"
UpdateTime == "toISOString"

\* actors.created: the column's default, CURRENT_TIMESTAMP at the insert of
\* the row, read as the number of the inserts before it; no row of actors is
\* ever deleted
CreatedAt(as) == Cardinality(as)

\* getActorHandle(actor): "@" preferredUsername "@" host of the actor's id
getActorHandle(d) == <<"@">> \o Get(d.preferredUsername) \o <<"@">> \o Get(d.id).host

\* The unique constraints of actors (uri apart): handle, inbox_url
ActorClash(as, uri, handle, inbox) ==
  \E r \in as : r.uri # uri /\ (r.handle = handle \/ r.inbox_url = inbox)

\* persistActor with ON CONFLICT (uri) DO NOTHING: a stored row keeps its fields
persistActor_DoNothing(as, d) ==
  IF d.id = None \/ d.inboxId = None
  THEN [result |-> "null", actors |-> as, id |-> None]
  ELSE LET uri == Get(d.id)
           old == ActorByUri(as, uri)
       IN IF ActorClash(as, uri, getActorHandle(d), Get(d.inboxId))
          THEN [result |-> "error", actors |-> as, id |-> None]
          ELSE IF old = None
          THEN LET row == [id |-> NextId(as), user_id |-> None, uri |-> uri,
                           handle |-> getActorHandle(d), name |-> d.name,
                           inbox_url |-> Get(d.inboxId),
                           shared_inbox_url |-> d.sharedInbox, url |-> d.url,
                           updated |-> DefaultUpdated, created |-> CreatedAt(as)]
               IN [result |-> "ok", actors |-> as \cup {row}, id |-> Some(row.id)]
          ELSE [result |-> "ok", actors |-> as, id |-> Some(Get(old).id)]

\* persistActor without the test of the inbox: a document without inbox is
\* stored under the shared inbox of its server
persistActor_NoInboxCheck(as, d) ==
  persistActor_DoNothing(as, IF d.inboxId = None
                             THEN [d EXCEPT !.inboxId = Some(Uri(RemoteHost, "inbox", <<>>))]
                             ELSE d)

\* persistActor with INSERT OR REPLACE: the stored row is deleted and a new
\* one inserted in its place
persistActor_Replace(as, d) ==
  IF d.id = None \/ d.inboxId = None
  THEN [result |-> "null", actors |-> as, id |-> None]
  ELSE LET uri == Get(d.id)
           rest == {r \in as : r.uri # uri}
           row == [id |-> NextId(as), user_id |-> None, uri |-> uri,
                   handle |-> getActorHandle(d), name |-> d.name,
                   inbox_url |-> Get(d.inboxId),
                   shared_inbox_url |-> d.sharedInbox, url |-> d.url,
                   updated |-> DefaultUpdated, created |-> CreatedAt(as)]
       IN IF ActorClash(as, uri, getActorHandle(d), Get(d.inboxId))
          THEN [result |-> "error", actors |-> as, id |-> None]
          ELSE [result |-> "ok", actors |-> rest \cup {row}, id |-> Some(row.id)]

\* insert into actors ... on conflict (uri) do update set handle, name,
\* inbox_url, shared_inbox_url, url; returns the row, null (descriptor
\* rejected) or raises (constraint violation)
persistActor(as, d) ==
  IF d.id = None \/ d.inboxId = None
  THEN [result |-> "null", actors |-> as, id |-> None]
  ELSE LET uri == Get(d.id)
           handle == getActorHandle(d)
           inbox == Get(d.inboxId)
           old == ActorByUri(as, uri)
       IN IF ActorClash(as, uri, handle, inbox)
          THEN [result |-> "error", actors |-> as, id |-> None]
          ELSE IF old = None
          THEN LET row == [id |-> NextId(as), user_id |-> None, uri |-> uri,
                           handle |-> handle, name |-> d.name, inbox_url |-> inbox,
                           shared_inbox_url |-> d.sharedInbox, url |-> d.url,
                           updated |-> DefaultUpdated, created |-> CreatedAt(as)]
               IN [result |-> "ok", actors |-> as \cup {row}, id |-> Some(row.id)]
          ELSE LET row == [Get(old) EXCEPT !.handle = handle, !.name = d.name,
                                           !.inbox_url = inbox,
                                           !.shared_inbox_url = d.sharedInbox,
                                           !.url = d.url]
               IN [result |-> "ok", actors |-> (as \ {Get(old)}) \cup {row},
                   id |-> Some(row.id)]

----------------------------------------------------------------------------
(* The record of the last request: what it was given, how it ended
   ("ok": returned normally, "dropped": returned early without acting,
   "rejected": refused, "error": raised), whether the Actor row of its sender
   and the FollowEdge it is about existed before it, and (for an Undo) the
   kind of the request before it when that one had the same sender and
   object *)

After(actorId, objectId) ==
  IF actorId # None /\ last.actorId = actorId /\ last.objectId = objectId
  THEN last.op ELSE "other"

Req(op, actorId, d, objectId, result, hadActor, hadEdge) ==
  [op |-> op, actorId |-> actorId, d |-> d, objectId |-> objectId,
   result |-> result, hadActor |-> hadActor, hadEdge |-> hadEdge,
   after |-> "other", post |-> None, content |-> <<>>, author |-> None, id |-> None]

Dropped(op) ==
  [op |-> op, actorId |-> None, d |-> None, objectId |-> None,
   result |-> "dropped", hadActor |-> FALSE, hadEdge |-> FALSE, after |-> "other",
   post |-> None, content |-> <<>>, author |-> None, id |-> None]

\* The record of a request of the mention pipeline: the post, the content and
\* the author it ran for, and the kind of the request before it when that one
\* ran for the same three
PostReq(op, post, content, author, result) ==
  [op |-> op, actorId |-> None, d |-> None, objectId |-> None,
   result |-> result, hadActor |-> FALSE, hadEdge |-> FALSE,
   after |-> IF post # None /\ last.post = post /\ last.content = content
                             /\ last.author = author /\ last.result = "ok"
             THEN last.op ELSE "other",
   post |-> post, content |-> content, author |-> author, id |-> None]

----------------------------------------------------------------------------
(* OutboundDispatcher *)

\* The key-pairs dispatcher answers [] for an identifier that is no local user
HasKeyPairs(us, identifier) == UserByUsername(us, identifier) # None

Recipient(row) ==
  [id |-> Some(row.uri), inboxId |-> Some(row.inbox_url), sharedInbox |-> row.shared_inbox_url]

\* a listing that takes every edge, whoever is followed
FollowersItems_AnyFollowing(us, as, fs, identifier) ==
  LET n == Len(fs)
  IN [i \in 1..n |-> Recipient(CHOOSE r \in as : r.id = fs[n + 1 - i].follower_id)]

\* The followers dispatcher: one item per edge whose following is the actor of
\* the user, newest edge first
FollowersItems(us, as, fs, identifier) ==
  LET owner == ActorByUsername(us, as, identifier)
      keep == {i \in 1..Len(fs) :
                 /\ owner # None
                 /\ fs[i].following_id = Get(owner).id
                 /\ \E r \in as : r.id = fs[i].follower_id}
      edges == SelectSeqBy(fs, keep)
      n == Len(edges)
  IN [i \in 1..n |->
        Recipient(CHOOSE r \in as : r.id = edges[n + 1 - i].follower_id)]

\* The followers counter: count(follows.follower_id) over follows joined with
\* the followed actor and its user
FollowersCounter(us, as, fs, identifier) ==
  LET owner == ActorByUsername(us, as, identifier)
  IN Cardinality({i \in 1..Len(fs) : owner # None /\ fs[i].following_id = Get(owner).id})

\* ctx.sendActivity({identifier}, recipients, activity): the activity handed to
\* the dispatcher, or an error when the sender has no key pair. The key pairs
\* the key-pairs dispatcher may store while it signs are left to the actions of
\* KeyVault; the senders keep the table keys as it is.
sendActivity(us, identifier, target, recipients, type) ==
  IF ~HasKeyPairs(us, identifier)
  THEN [result |-> "error", sent |-> <<>>]
  ELSE [result |-> "ok",
        sent |-> <<[type |-> type, sender |-> identifier, target |-> target,
                    recipients |-> recipients]>>]

\* The recipient sendActivity is given for a fetched actor document
DocRecipient(d) == [id |-> d.id, inboxId |-> d.inboxId, sharedInbox |-> d.sharedInbox]

\* The inboxes sendActivity delivers to: the inbox of each recipient that
\* carries an id and an inbox; a recipient without either gets nothing
extractInboxes(recipients) ==
  {Get(r.inboxId) : r \in {x \in Range(recipients) : x.id # None /\ x.inboxId # None}}

----------------------------------------------------------------------------
(* KeyVault: the key-pairs dispatcher *)

\* the key types in the order of the dispatcher's loop
KeyTypes == <<"RSASSA-PKCS1-v1_5", "Ed25519">>

\* generateCryptoKeyPair(keyType): a pair no other generation yields; seed
\* names the generation
generateCryptoKeyPair(keyType, seed) ==
  [privateKey |-> <<"private", keyType, seed>>, publicKey |-> <<"public", keyType, seed>>]

\* JSON.stringify(await exportJwk(key)) and importJwk(JSON.parse(text), use)
exportJwk(key) == [jwk |-> key]
importJwk(text, use) ==
  IF text.jwk[1] = use THEN text.jwk ELSE <<"TypeError", use>>

KeysOf(ks, userId) == {k \in ks : k.user_id = userId}

KeyRow(userId, keyType, pair) ==
  [user_id |-> userId, type |-> keyType,
   private_key |-> exportJwk(pair.privateKey),
   public_key |-> exportJwk(pair.publicKey)]

\* an import that hands the public key out as the private key too
StoredPair_PublicOnly(row) ==
  [privateKey |-> importJwk(row.public_key, "public"),
   publicKey |-> importJwk(row.public_key, "public")]

StoredPair(row) ==
  [privateKey |-> importJwk(row.private_key, "private"),
   publicKey |-> importJwk(row.public_key, "public")]

\* an insert into keys that replaces the stored pair of the user and type
InsertKey_Replace(ks, row) ==
  [result |-> "ok",
   keys |-> {k \in ks : ~ (k.user_id = row.user_id /\ k.type = row.type)} \cup {row}]

\* insert into keys: raises when the primary key (user_id, type) is taken
InsertKey(ks, row) ==
  IF \E k \in ks : k.user_id = row.user_id /\ k.type = row.type
  THEN [result |-> "error", keys |-> ks]
  ELSE [result |-> "ok", keys |-> ks \cup {row}]

\* One round of the loop for keyType: rows is what the dispatcher selected
\* from keys before the loop, ks is the table now
KeyStep(userId, rows, ks, keyType, seed) ==
  LET stored == {r \in rows : r.type = keyType}
  IN IF stored = {}
     THEN LET pair == generateCryptoKeyPair(keyType, seed)
              ins == InsertKey(ks, KeyRow(userId, keyType, pair))
          IN [result |-> ins.result, pair |-> pair, keys |-> ins.keys]
     ELSE [result |-> "ok", pair |-> StoredPair(CHOOSE r \in stored : TRUE), keys |-> ks]

RECURSIVE KeyLoop(_, _, _, _, _, _)
KeyLoop(userId, rows, ks, i, pairs, seed) ==
  IF i > Len(KeyTypes)
  THEN [result |-> "ok", pairs |-> pairs, keys |-> ks]
  ELSE LET step == KeyStep(userId, rows, ks, KeyTypes[i], seed)
       IN IF step.result = "error"
          THEN [result |-> "error", pairs |-> <<>>, keys |-> step.keys]
          ELSE KeyLoop(userId, rows, step.keys, i + 1, Append(pairs, step.pair), seed)

\* The dispatcher run from its first to its last statement with no other
\* request in between
getOrCreateKeyPairs(us, ks, identifier, seed) ==
  LET user == UserByUsername(us, identifier)
  IN IF user = None
     THEN [result |-> "ok", pairs |-> <<>>, keys |-> ks]
     ELSE KeyLoop(Get(user).id, KeysOf(ks, Get(user).id), ks, 1, <<>>, seed)

\* A call of the dispatcher: the identifier it is for, where it stands
\* ("user": before the select from users, "rows": before the select from keys,
\* "loop": in the loop, before the round of KeyTypes[at], "done": returned,
\* "failed": raised), the user and the rows it selected, the pairs it has
\* pushed, and whether it ran with no other request in between
Dispatch(identifier, pc, user, rows, at, pairs, alone) ==
  [identifier |-> identifier, pc |-> pc, user |-> user, rows |-> rows, at |-> at,
   pairs |-> pairs, alone |-> alone]

\* a whole call of the dispatcher in one step
DispatchKeyPairs(identifier) ==
  /\ Len(dispatches) < MaxDispatches
  /\ LET user == UserByUsername(users, identifier)
         rows == IF user = None THEN {} ELSE KeysOf(keys, Get(user).id)
         out == getOrCreateKeyPairs(users, keys, identifier, Len(dispatches) + 1)
     IN /\ keys' = out.keys
        /\ dispatches' = Append(dispatches,
                                Dispatch(identifier,
                                         IF out.result = "ok" THEN "done" ELSE "failed",
                                         IF user = None THEN None ELSE Some(Get(user).id),
                                         rows, Len(KeyTypes) + 1, out.pairs, TRUE))
  /\ UNCHANGED <<tables, sent, last, runs, call, requested>>

\* a call arrives
CallKeyPairs(identifier) ==
  /\ Len(dispatches) < MaxDispatches
  /\ dispatches' = Append(dispatches, Dispatch(identifier, "user", None, {}, 1, <<>>, FALSE))
  /\ UNCHANGED <<tables, sent, last, runs, call, keys, requested>>

\* select from users where username = identifier; return [] when there is none
KeysSelectUser(i) ==
  /\ dispatches[i].pc = "user"
  /\ LET user == UserByUsername(users, dispatches[i].identifier)
     IN dispatches' =
          [dispatches EXCEPT ![i] =
             IF user = None
             THEN [@ EXCEPT !.pc = "done"]
             ELSE [@ EXCEPT !.pc = "rows", !.user = Some(Get(user).id)]]
  /\ UNCHANGED <<tables, sent, last, runs, call, keys, requested>>

\* select from keys where user_id = user.id
KeysSelectRows(i) ==
  /\ dispatches[i].pc = "rows"
  /\ dispatches' = [dispatches EXCEPT ![i] =
                      [@ EXCEPT !.pc = "loop",
                                !.rows = KeysOf(keys, Get(dispatches[i].user))]]
  /\ UNCHANGED <<tables, sent, last, runs, call, keys, requested>>

\* one round of the loop: import the selected pair, or generate and insert one
KeysLoopRound(i) ==
  /\ dispatches[i].pc = "loop"
  /\ LET d == dispatches[i]
         step == KeyStep(Get(d.user), d.rows, keys, KeyTypes[d.at], i)
     IN /\ keys' = step.keys
        /\ dispatches' =
             [dispatches EXCEPT ![i] =
                IF step.result = "error"
                THEN [@ EXCEPT !.pc = "failed", !.pairs = <<>>]
                ELSE [@ EXCEPT !.pc = IF d.at = Len(KeyTypes) THEN "done" ELSE "loop",
                               !.at = d.at + 1,
                               !.pairs = Append(d.pairs, step.pair)]]
  /\ UNCHANGED <<tables, sent, last, runs, call, requested>>

----------------------------------------------------------------------------
(* FollowGraph writes *)

\* follows.following_id and follows.follower_id reference actors.id, with
\* foreign_keys = ON: an insert of an id no actor row has raises
References(as, id) == \E r \in as : r.id = id

\* insert into follows values (following_id, follower_id): raises when the
\* primary key (following_id, follower_id) is taken
InsertFollow(fs, followingId, followerId) ==
  IF HasEdge(fs, followingId, followerId)
  THEN [result |-> "error", follows |-> fs]
  ELSE [result |-> "ok",
        follows |-> Append(fs, [following_id |-> followingId, follower_id |-> followerId])]

\* the delete with its two columns swapped
DeleteFollow_Swapped(us, as, fs, identifier, actorUri) ==
  LET following == ActorByUsername(us, as, identifier)
      follower == ActorByUri(as, actorUri)
      keep == {i \in 1..Len(fs) :
                 ~ (/\ following # None
                    /\ follower # None
                    /\ fs[i].follower_id = Get(following).id
                    /\ fs[i].following_id = Get(follower).id)}
  IN SelectSeqBy(fs, keep)

\* the delete without its condition on following_id
DeleteFollow_AnyFollowing(us, as, fs, identifier, actorUri) ==
  LET follower == ActorByUri(as, actorUri)
      keep == {i \in 1..Len(fs) :
                 ~ (follower # None /\ fs[i].follower_id = Get(follower).id)}
  IN SelectSeqBy(fs, keep)

\* the delete without its condition on follower_id
DeleteFollow_AnyFollower(us, as, fs, identifier, actorUri) ==
  LET following == ActorByUsername(us, as, identifier)
      keep == {i \in 1..Len(fs) :
                 ~ (following # None /\ fs[i].following_id = Get(following).id)}
  IN SelectSeqBy(fs, keep)

\* delete from follows where following_id = (the actor of the local user) and
\* follower_id = (the actor with the URI); a subquery without a row is NULL
DeleteFollow(us, as, fs, identifier, actorUri) ==
  LET following == ActorByUsername(us, as, identifier)
      follower == ActorByUri(as, actorUri)
      keep == {i \in 1..Len(fs) :
                 ~ (/\ following # None
                    /\ follower # None
                    /\ fs[i].following_id = Get(following).id
                    /\ fs[i].follower_id = Get(follower).id)}
  IN SelectSeqBy(fs, keep)

----------------------------------------------------------------------------
(* Registration *)

\* /^[a-z0-9_-]{1,50}$/ on the names of the model
ValidUsername(username) ==
  /\ Len(username) >= 1
  /\ \A i \in 1..Len(username) : username[i] \in {"a", "b", "z", "c", "e", "k"}

\* POST /register
Register(username, name) ==
  /\ LET existingUser == UserByUsername(users, username)
         isFirstUser == ~ \E u \in users : u.id = 0
         userId == IF isFirstUser THEN 0 ELSE NextId(users)
         handle == <<"@">> \o username \o <<"@">> \o Host
         row == [id |-> NextId(actors), user_id |-> Some(userId),
                 uri |-> getActorUri(username), handle |-> handle,
                 name |-> Some(name), inbox_url |-> getInboxUri(username),
                 shared_inbox_url |-> Some(getSharedInboxUri),
                 url |-> Some(getActorUri(username)),
                 updated |-> DefaultUpdated, created |-> CreatedAt(actors)]
         clash == \/ ActorClash(actors, row.uri, row.handle, row.inbox_url)
                  \/ ActorByUri(actors, row.uri) # None
         req(result) == Req("Register", Some(getActorUri(username)), None, None,
                            result, FALSE, FALSE)
     IN IF ~ValidUsername(username) \/ existingUser # None
        THEN /\ UNCHANGED <<users, actors>>
             /\ last' = req("rejected")
        ELSE IF clash
        THEN \* the transaction rolls back
             /\ UNCHANGED <<users, actors>>
             /\ last' = req("error")
        ELSE /\ users' = users \cup {[id |-> userId, username |-> username]}
             /\ actors' = actors \cup {row}
             /\ last' = req("ok")
  /\ sent' = <<>>
  /\ UNCHANGED <<follows, posts, mentions, notifications, sqlite_sequence, runs, call, more>>

----------------------------------------------------------------------------
(* ActorDirectory.upsertActor called on its own *)

UpsertActor(d) ==
  /\ LET p == persistActor(actors, d)
         hadActor == d.id # None /\ ActorByUri(actors, Get(d.id)) # None
     IN /\ actors' = p.actors
        /\ last' = Req("UpsertActor", d.id, Some(d), None, p.result, hadActor, FALSE)
  /\ sent' = <<>>
  /\ UNCHANGED <<users, follows, posts, mentions, notifications, sqlite_sequence, runs, call, more>>

----------------------------------------------------------------------------
(* InboxProcessor *)

\* on(Follow): follow = [actor: the document getActor() fetched or null,
\*                       objectId: the URI the Follow names or null]
OnFollow(follow) ==
  /\ LET object == parseUri(follow.objectId)
         follower == follow.actor
     IN IF \/ follow.objectId = None
           \/ object = None
           \/ Get(object).type # "actor"
           \/ follower = None
        THEN /\ UNCHANGED <<actors, follows>>
             /\ sent' = <<>>
             /\ last' = Dropped("Follow")
        ELSE LET followingActor == ActorWithUser(users, actors, Get(object).identifier)
                 following_id == IF followingActor = None THEN None
                                 ELSE Some(Get(followingActor).id)
                 p == persistActor(actors, Get(follower))
                 hadActor == /\ Get(follower).id # None
                             /\ ActorByUri(actors, Get(Get(follower).id)) # None
                 hadEdge == /\ following_id # None
                            /\ p.id # None
                            /\ HasEdge(follows, Get(following_id), Get(p.id))
                 ins == IF following_id # None /\ p.id # None
                        THEN IF References(p.actors, Get(following_id))
                             THEN InsertFollow(follows, Get(following_id), Get(p.id))
                             ELSE [result |-> "error", follows |-> follows]
                        ELSE [result |-> "ok", follows |-> follows]
                 out == sendActivity(users, Get(object).identifier, "actor",
                                     <<DocRecipient(Get(follower))>>, "Accept")
                 req(result) == Req("Follow", Get(follower).id, follower, follow.objectId,
                                    result, hadActor, hadEdge)
             IN IF p.result = "error"
                THEN /\ UNCHANGED <<actors, follows>>
                     /\ sent' = <<>>
                     /\ last' = req("error")
                ELSE IF ins.result = "error"
                THEN /\ actors' = p.actors
                     /\ UNCHANGED follows
                     /\ sent' = <<>>
                     /\ last' = req("error")
                ELSE /\ Len(ins.follows) <= MaxEdges
                     /\ actors' = p.actors
                     /\ follows' = ins.follows
                     /\ sent' = out.sent
                     /\ last' = req(out.result)
  /\ UNCHANGED <<users, posts, mentions, notifications, sqlite_sequence, runs, call, more>>

\* on(Undo): undo = [actorId: the URI of the sender or null,
\*                   object: [type, objectId] or null]
OnUndo(undo) ==
  /\ LET object == undo.object
         inner == IF object = None THEN None ELSE Get(object).objectId
         parsed == parseUri(inner)
     IN IF \/ object = None
           \/ Get(object).type # "Follow"
           \/ undo.actorId = None
           \/ inner = None
           \/ parsed = None
           \/ Get(parsed).type # "actor"
        THEN /\ UNCHANGED follows
             /\ last' = Dropped("Undo")
        ELSE LET following == ActorByUsername(users, actors, Get(parsed).identifier)
                 follower == ActorByUri(actors, Get(undo.actorId))
                 hadEdge == /\ following # None
                            /\ follower # None
                            /\ HasEdge(follows, Get(following).id, Get(follower).id)
             IN /\ follows' = DeleteFollow(users, actors, follows,
                                           Get(parsed).identifier, Get(undo.actorId))
                /\ last' = [Req("Undo", undo.actorId, None, inner, "ok",
                                follower # None, hadEdge)
                             EXCEPT !.after = After(undo.actorId, inner)]
  /\ sent' = <<>>
  /\ UNCHANGED <<users, actors, posts, mentions, notifications, sqlite_sequence, runs, call, more>>

\* on(Accept): accept = [actor: the document getActor() fetched or null,
\*                       object: [type, actorId] or null]
OnAccept(accept) ==
  /\ LET follow == accept.object
         following == accept.actor
         follower == IF follow = None THEN None ELSE Get(follow).actorId
         parsed == parseUri(follower)
     IN IF \/ follow = None
           \/ Get(follow).type # "Follow"
           \/ following = None
           \/ follower = None
           \/ parsed = None
           \/ Get(parsed).type # "actor"
        THEN /\ UNCHANGED <<actors, follows>>
             /\ last' = Dropped("Accept")
        ELSE LET p == persistActor(actors, Get(following))
                 followerActor == ActorByUsername(users, p.actors, Get(parsed).identifier)
                 hadActor == /\ Get(following).id # None
                             /\ ActorByUri(actors, Get(Get(following).id)) # None
                 hadEdge == /\ p.id # None
                            /\ followerActor # None
                            /\ HasEdge(follows, Get(p.id), Get(followerActor).id)
                 ins == IF p.id # None /\ followerActor # None
                        THEN InsertFollow(follows, Get(p.id), Get(followerActor).id)
                        ELSE [result |-> "ok", follows |-> follows]
                 req(result) == Req("Accept", Get(following).id, following, follower,
                                    result, hadActor, hadEdge)
             IN IF p.result = "error"
                THEN /\ UNCHANGED <<actors, follows>>
                     /\ last' = req("error")
                ELSE IF p.result = "null"
                THEN /\ UNCHANGED <<actors, follows>>
                     /\ last' = req("dropped")
                ELSE IF ins.result = "error"
                THEN /\ actors' = p.actors
                     /\ UNCHANGED follows
                     /\ last' = req("error")
                ELSE /\ Len(ins.follows) <= MaxEdges
                     /\ actors' = p.actors
                     /\ follows' = ins.follows
                     /\ last' = req("ok")
  /\ sent' = <<>>
  /\ UNCHANGED <<users, posts, mentions, notifications, sqlite_sequence, runs, call, more>>

\* isActor(object): one of the five actor types
ActorTypes == {"Application", "Group", "Organization", "Person", "Service"}
isActor(author) == author # None /\ Get(author).type \in ActorTypes

\* a check of the author that lets every actor through
SameAuthor_Any(author, actor) == isActor(author)

\* isActor(author) && author.id?.href === actor.href
SameAuthor(author, actor) == isActor(author) /\ Get(author).doc.id = actor

\* the columns of the posts table
PostsColumns == {"id", "uri", "actor_id", "content", "url", "created"}

\* insert into posts values (...) returning *: raises when a value names no
\* column of the table or the uri is taken
InsertPost(ps, values) ==
  IF \/ ~ (DOMAIN values \subseteq PostsColumns)
     \/ \E r \in ps : r.uri = values.uri
  THEN [result |-> "error", posts |-> ps]
  ELSE [result |-> "ok",
        posts |-> ps \cup {[id |-> NextId(ps), uri |-> values.uri,
                            actor_id |-> values.actor_id,
                            content |-> values.content]}]

\* on(Create): create = [actorId: the URI of the sender or null,
\*                       object: [type, id, content, attribution] or null],
\* attribution = [type, doc]: what getAttribution() fetched, or null
OnCreate(create) ==
  /\ LET object == create.object
         actor == create.actorId
         author == IF object = None THEN None ELSE Get(object).attribution
     IN IF \/ object = None
           \/ Get(object).type # "Note"
           \/ actor = None
        THEN /\ UNCHANGED <<actors, posts>>
             /\ last' = Dropped("Create")
        ELSE IF ~SameAuthor(author, actor)
        THEN /\ UNCHANGED <<actors, posts>>
             /\ last' = Req("Create", actor,
                            IF author = None THEN None ELSE Some(Get(author).doc),
                            Get(object).id, "dropped", FALSE, FALSE)
        ELSE LET d == Get(author).doc
                 p == persistActor(actors, d)
                 hadActor == ActorByUri(actors, Get(actor)) # None
                 ins == InsertPost(posts,
                                   [uri |-> Get(Get(object).id), actor_id |-> Get(p.id),
                                    content |-> Get(Get(object).content),
                                    media_type |-> "text/html", url |-> None])
                 req(result) == Req("Create", actor, Some(d), Get(object).id, result,
                                    hadActor, FALSE)
             IN IF p.result = "error"
                THEN /\ UNCHANGED <<actors, posts>>
                     /\ last' = req("error")
                ELSE IF p.result = "null"
                THEN /\ UNCHANGED <<actors, posts>>
                     /\ last' = req("dropped")
                ELSE IF Get(object).id = None
                THEN /\ actors' = p.actors
                     /\ UNCHANGED posts
                     /\ last' = req("dropped")
                ELSE IF Get(object).content = None
                THEN /\ actors' = p.actors
                     /\ UNCHANGED posts
                     /\ last' = req("ok")
                ELSE /\ Cardinality(ins.posts) <= MaxPosts
                     /\ actors' = p.actors
                     /\ posts' = ins.posts
                     /\ last' = req(ins.result)
  /\ sent' = <<>>
  /\ UNCHANGED <<users, follows, mentions, notifications, sqlite_sequence, runs, call, more>>

\* object.name?.toString() || null
NameOrNull(name) == IF name = None \/ Get(name) = "" THEN None ELSE name

\* an update that also overwrites the profile URL
UpdateActor_AndUrl(as, id, name) ==
  {IF r.id = id
   THEN [r EXCEPT !.name = NameOrNull(name), !.updated = UpdateTime, !.url = None]
   ELSE r : r \in as}

\* update actors set name, updated where id = existingActor.id
UpdateActor(as, id, name) ==
  {IF r.id = id
   THEN [r EXCEPT !.name = NameOrNull(name), !.updated = UpdateTime]
   ELSE r : r \in as}

\* on(Update): update = [actorId: the URI of the sender or null,
\*                       object: [type, id, name] or null]
OnUpdate(update) ==
  /\ LET object == update.object
         actor == update.actorId
     IN IF \/ object = None
           \/ Get(object).type # "Person"
           \/ actor = None
        THEN /\ UNCHANGED actors
             /\ last' = Dropped("Update")
        ELSE LET existingActor == ActorByUri(actors, Get(actor))
                 req(result) == Req("Update", actor, None, Get(object).id, result,
                                    existingActor # None, FALSE)
             IN IF Get(object).id # actor
                THEN /\ UNCHANGED actors
                     /\ last' = req("dropped")
                ELSE IF existingActor = None
                THEN /\ UNCHANGED actors
                     /\ last' = req("dropped")
                ELSE /\ actors' = UpdateActor(actors, Get(existingActor).id,
                                              Get(object).name)
                     /\ last' = req("ok")
  /\ sent' = <<>>
  /\ UNCHANGED <<users, follows, posts, mentions, notifications, sqlite_sequence, runs, call, more>>

----------------------------------------------------------------------------
(* The follow and unfollow routes *)

\* authMiddleware: getCurrentUser() of a request that carries the token
\* generateToken() issued to the user named session; verifyToken() returns
\* null when !payload.userId, which is the case of the user with id 0, and
\* the request is redirected to /login
AuthUser(us, session) ==
  LET u == UserByUsername(us, session)
  IN IF u = None \/ Get(u).id = 0 THEN None ELSE u

\* sendUndoFollow(ctx, username, targetUri): an Undo(Follow) from the user to
\* the actor with that URI
sendUndoFollow(us, as, username, targetUri) ==
  sendActivity(us, username, "actor",
               <<Recipient(Get(ActorByUri(as, targetUri)))>>, "Undo")

\* POST /users/:username/following: actor is what lookupObject(handle) found,
\* null when it is no actor
RequestFollow(session, username, actor) ==
  /\ IF AuthUser(users, session) = None
     THEN /\ sent' = <<>>
          /\ last' = Req("RequestFollow", Some(getActorUri(username)), actor, None,
                         "rejected", FALSE, FALSE)
          /\ UNCHANGED requested
     ELSE IF actor = None
     THEN /\ sent' = <<>>
          /\ last' = Req("RequestFollow", Some(getActorUri(username)), None, None,
                         "rejected", FALSE, FALSE)
          /\ UNCHANGED requested
     ELSE LET out == sendActivity(users, username, "actor",
                                  <<DocRecipient(Get(actor))>>, "Follow")
          IN /\ sent' = out.sent
             /\ last' = Req("RequestFollow", Some(getActorUri(username)), actor,
                            Get(actor).id, out.result, FALSE, FALSE)
             /\ requested' = IF out.result = "ok" /\ Get(actor).id # None
                             THEN requested \cup {<<username, Get(Get(actor).id)>>}
                             ELSE requested
  /\ UNCHANGED <<tables, runs, call, keys, dispatches>>

\* a delete that removes every edge of the follower
DeleteFollowing_AllOfFollower(fs, followerId, followingId) ==
  SelectSeqBy(fs, {i \in 1..Len(fs) : fs[i].follower_id # followerId})

\* delete from follows where follower_id = ... and following_id = ...
DeleteFollowing(fs, followerId, followingId) ==
  SelectSeqBy(fs, {i \in 1..Len(fs) :
                     ~ (fs[i].follower_id = followerId /\ fs[i].following_id = followingId)})

\* POST /users/:username/unfollow: actorId is the number in the form;
\* delivers tells whether sendUndoFollow returns or raises
Unfollow(session, username, actorId, delivers) ==
  /\ LET authUser == AuthUser(users, session)
         currentUserActor == IF authUser = None THEN None
                             ELSE ActorByUserId(actors, Get(authUser).id)
         found == {r \in actors : r.id = actorId}
         targetActor == IF found = {} THEN None ELSE Some(CHOOSE r \in found : TRUE)
         targetUri == IF targetActor = None THEN None ELSE Some(Get(targetActor).uri)
         req(result, hadEdge) ==
           Req("Unfollow", Some(getActorUri(username)), None, targetUri, result,
               targetActor # None, hadEdge)
     IN IF authUser = None \/ currentUserActor = None
        THEN /\ UNCHANGED <<follows, requested>>
             /\ sent' = <<>>
             /\ last' = req("rejected", FALSE)
        ELSE LET out == IF targetActor = None \/ ~delivers
                        THEN [result |-> "error", sent |-> <<>>]
                        ELSE sendUndoFollow(users, actors, username, Get(targetUri))
             IN /\ follows' = DeleteFollowing(follows, Get(currentUserActor).id, actorId)
                /\ sent' = out.sent
                /\ last' = req("ok", HasEdge(follows, actorId, Get(currentUserActor).id))
                /\ requested' = IF targetUri = None THEN requested
                                ELSE requested \ {<<username, Get(targetUri)>>}
  /\ UNCHANGED <<users, actors, posts, mentions, notifications, sqlite_sequence, runs, call, keys, dispatches>>

----------------------------------------------------------------------------
(* MentionResolver *)

Letter ==
  {"a", "b", "c", "d", "e", "f", "g", "h", "i", "j", "k", "l", "m", "n", "o", "p", "q",
   "r", "s", "t", "u", "v", "w", "x", "y", "z", "A", "B"}
Digit == {"0", "1"}
\* [a-zA-Z0-9_.-]
NameChar == Letter \cup Digit \cup {"_", ".", "-"}
\* [a-zA-Z0-9.-]
DomainChar == Letter \cup Digit \cup {".", "-"}
\* [\s\n]
Space == {" ", "\n", "\t"}

RECURSIVE RunLen(_, _, _)
\* the length of the longest run of characters of class from index from
RunLen(c, from, class) ==
  IF from > Len(c) \/ c[from] \notin class THEN 0
  ELSE 1 + RunLen(c, from + 1, class)

\* a start that takes an @ wherever it stands
MentionStart_AnyAt(c, s) == IF c[s] = "@" THEN s ELSE 0

\* (?:^|[\s\n])@ at index s: the index of the @, which follows the start of
\* the text or one white-space character; 0 when there is none
MentionStart(c, s) ==
  IF s = 1 /\ c[1] = "@" THEN 1
  ELSE IF c[s] \in Space /\ s + 1 <= Len(c) /\ c[s + 1] = "@" THEN s + 1
  ELSE 0

\* [a-zA-Z0-9.-]+ after an @ at index p: the longest run of domain characters
DomainLen(c, p) ==
  IF p <= Len(c) /\ c[p] = "@" THEN RunLen(c, p + 1, DomainChar) ELSE 0

\* \.[a-zA-Z]{2,}: the lengths the domain can be cut back to, so that a dot
\* and two or more letters follow
DomainSplits(c, p, m) ==
  {j \in 1..(m - 1) : c[p + 1 + j] = "." /\ RunLen(c, p + 2 + j, Letter) >= 2}

\* the quantifiers are greedy: the longest cut that matches, then every letter
GroupEnd(c, p, splits) ==
  IF splits = {} THEN p
  ELSE p + 2 + (CHOOSE x \in splits : \A y \in splits : y <= x)
         + RunLen(c, p + 2 + (CHOOSE x \in splits : \A y \in splits : y <= x), Letter)

\* the name is the longest run of name characters after the @ at index at, and
\* the optional group follows it
MatchName(c, s, at, n) ==
  IF at = 0 \/ n = 0
  THEN [ok |-> FALSE, end |-> s]
  ELSE [ok |-> TRUE,
        end |-> GroupEnd(c, at + 1 + n,
                         DomainSplits(c, at + 1 + n, DomainLen(c, at + 1 + n)))]

\* one attempt of mentionRegex at index s: whether it matches and where the
\* match ends
MatchAt(c, s) ==
  MatchName(c, s, MentionStart(c, s), RunLen(c, MentionStart(c, s) + 1, NameChar))

\* match[1]: the text after the @, up to the end of the match
Token(c, s) == SubSeq(c, MentionStart(c, s) + 1, MatchAt(c, s).end - 1)

RECURSIVE FirstMatch(_, _)
\* the leftmost index at or after lastIndex the expression matches at; 0 when
\* there is none
FirstMatch(c, lastIndex) ==
  IF lastIndex > Len(c) THEN 0
  ELSE IF MatchAt(c, lastIndex).ok THEN lastIndex
  ELSE FirstMatch(c, lastIndex + 1)

RECURSIVE ScanMentions(_, _, _)
\* the while loop over mentionRegex.exec: s is the start of the match found
\* (0: exec returned null), and the next search starts at the end of the match
ScanMentions(c, s, found) ==
  IF s = 0 THEN found
  ELSE ScanMentions(c, FirstMatch(c, MatchAt(c, s).end),
                    IF Token(c, s) \in Range(found) THEN found
                    ELSE Append(found, Token(c, s)))

parseMentions(content) == ScanMentions(content, FirstMatch(content, 1), <<>>)

\* parseMentions is called with the text at hand
ParseMentions ==
  /\ call.fn = "text"
  /\ call' = [call EXCEPT !.fn = "parseMentions", !.result = parseMentions(call.content)]
  /\ UNCHANGED <<tables, sent, last, runs, more>>

\* a lookup that matches handles only
FindMentionedUser_HandleOnly(us, as, username) == ActorByHandle(as, username)

\* the lookup of one token: null when nothing matches
FindMentionedUser(us, as, username) ==
  IF "@" \in Range(username)
  THEN ActorByHandle(as, username)
  ELSE LET user == UserByUsername(us, username)
           actor == IF user = None THEN None ELSE ActorByUserId(as, Get(user).id)
       IN IF actor # None THEN actor ELSE ActorByHandle(as, username)

RECURSIVE FindMentionedUsers(_, _, _, _)
\* the loop of findMentionedUsers; failed holds the indices of the tokens whose
\* lookup raises, which the catch inside the loop drops
FindMentionedUsers(us, as, usernames, failed) ==
  IF usernames = <<>> THEN <<>>
  ELSE LET n == Len(usernames)
           front == FindMentionedUsers(us, as, SubSeq(usernames, 1, n - 1), failed)
           actor == IF n \in failed THEN None ELSE FindMentionedUser(us, as, usernames[n])
       IN IF actor = None THEN front ELSE Append(front, Get(actor))

\* findMentionedUsers when no lookup raises
findMentionedUsers(us, as, usernames) == FindMentionedUsers(us, as, usernames, {})

\* findMentionedUsers is called; the lookups of the tokens at failed raise
ResolveMentions(usernames, failed) ==
  /\ call' = [fn |-> "findMentionedUsers", usernames |-> usernames, failed |-> failed,
              content |-> <<>>,
              result |-> FindMentionedUsers(users, actors, usernames, failed)]
  /\ UNCHANGED <<tables, sent, last, runs, more>>

----------------------------------------------------------------------------
(* NotificationFanout *)

\* insert into <table> values (rows): each row gets the next id, in order
InsertRows(table, rows) ==
  table \cup {[rows[i] EXCEPT !.id = NextId(table) + i - 1] : i \in 1..Len(rows)}

\* a save that stores nothing
\* the same into a table whose id is AUTOINCREMENT and has rows deleted: the
\* ids go on from the highest one ever handed out
InsertAfter(table, seq, rows) ==
  table \cup {[rows[i] EXCEPT !.id = seq + i] : i \in 1..Len(rows)}

\* the highest id handed out once the table holds these rows
Sequence(seq, table) ==
  IF \A r \in table : r.id <= seq THEN seq
  ELSE CHOOSE m \in {r.id : r \in table} : \A r \in table : r.id <= m

saveMentions_Skip(ms, postId, mentionedActors) == ms

\* saveMentions, the read: mentioned_actor_id of the rows of the post
ExistingMentions(ms, postId) == {m.mentioned_actor_id : m \in {x \in ms : x.post_id = postId}}

\* saveMentions, the filter and map: one new row per listed actor not read
NewMentions(postId, mentionedActors, existingActorIds) ==
  LET keep == {i \in 1..Len(mentionedActors) : mentionedActors[i].id \notin existingActorIds}
      kept == SelectSeqBy(mentionedActors, keep)
  IN [i \in 1..Len(kept) |-> [id |-> 0, post_id |-> postId, mentioned_actor_id |-> kept[i].id]]

saveMentions(ms, postId, mentionedActors) ==
  IF mentionedActors = <<>> THEN ms
  ELSE InsertRows(ms, NewMentions(postId, mentionedActors, ExistingMentions(ms, postId)))

\* a read that finds no notification
ExistingNotifications_None(ns, postId, authorActorId) == {}

\* createMentionNotifications, the read: recipients of the mention
\* notifications of the post and author
ExistingNotifications(ns, postId, authorActorId) ==
  {n.recipient_actor_id :
     n \in {x \in ns : /\ x.type = "mention"
                       /\ x.related_post_id = Some(postId)
                       /\ x.related_actor_id = Some(authorActorId)}}

\* a filter that keeps the author
NewNotifications_WithAuthor(postId, authorActorId, mentionedActors, existingRecipientIds) ==
  LET keep == {i \in 1..Len(mentionedActors) :
                 mentionedActors[i].id \notin existingRecipientIds}
      kept == SelectSeqBy(mentionedActors, keep)
  IN [i \in 1..Len(kept) |->
        [id |-> 0, recipient_actor_id |-> kept[i].id, type |-> "mention",
         related_post_id |-> Some(postId), related_actor_id |-> Some(authorActorId),
         is_read |-> 0]]

\* createMentionNotifications, the filter and map
NewNotifications(postId, authorActorId, mentionedActors, existingRecipientIds) ==
  LET keep == {i \in 1..Len(mentionedActors) :
                 /\ mentionedActors[i].id # authorActorId
                 /\ mentionedActors[i].id \notin existingRecipientIds}
      kept == SelectSeqBy(mentionedActors, keep)
  IN [i \in 1..Len(kept) |->
        [id |-> 0, recipient_actor_id |-> kept[i].id, type |-> "mention",
         related_post_id |-> Some(postId), related_actor_id |-> Some(authorActorId),
         is_read |-> 0]]

\* raises when the author has no Actor row
createMentionNotifications(as, ns, postId, authorActorId, mentionedActors) ==
  IF mentionedActors = <<>> THEN [result |-> "ok", notifications |-> ns]
  ELSE IF ~ \E r \in as : r.id = authorActorId
  THEN [result |-> "error", notifications |-> ns]
  ELSE [result |-> "ok",
        notifications |->
          InsertAfter(ns, sqlite_sequence,
                      NewNotifications(postId, authorActorId, mentionedActors,
                                       ExistingNotifications(ns, postId, authorActorId)))]

\* processMentions: parse, resolve, save the mentions, create the notifications
processMentions(us, as, ms, ns, postId, content, authorActorId) ==
  LET mentionedUsernames == parseMentions(content)
      mentionedActors == findMentionedUsers(us, as, mentionedUsernames)
      saved == saveMentions(ms, postId, mentionedActors)
      c == createMentionNotifications(as, ns, postId, authorActorId, mentionedActors)
  IN IF mentionedUsernames = <<>> \/ mentionedActors = <<>>
     THEN [result |-> "ok", mentions |-> ms, notifications |-> ns]
     ELSE [result |-> c.result, mentions |-> saved, notifications |-> c.notifications]

\* processMentions called again for a stored post (a retry)
ProcessMentions(postId, content, authorActorId) ==
  /\ \E p \in posts : p.id = postId
  /\ LET r == processMentions(users, actors, mentions, notifications,
                              postId, content, authorActorId)
     IN /\ Cardinality(r.mentions) <= MaxRows
        /\ Cardinality(r.notifications) <= MaxRows
        /\ mentions' = r.mentions
        /\ notifications' = r.notifications
        /\ sqlite_sequence' = Sequence(sqlite_sequence, r.notifications)
        /\ sqlite_sequence' <= MaxIds
        /\ last' = PostReq("ProcessMentions", Some(postId), content, Some(authorActorId), r.result)
  /\ sent' = <<>>
  /\ UNCHANGED <<users, actors, follows, posts, runs, call, more>>

----------------------------------------------------------------------------
(* Post creation *)

DigitChars == <<"1", "2", "3", "4", "5", "6", "7", "8", "9">>

\* ctx.getObjectUri(Note, {identifier, id: id.toString()})
getObjectUri(identifier, id) == Uri(Host, "posts", identifier \o <<"/", DigitChars[id]>>)

\* the placeholder the row is inserted with
PlaceholderUri == Uri(<<"l", "o", "c", "a", "l", "h", "o", "s", "t">>, "", <<>>)

\* String.prototype.trim
RECURSIVE Trim(_)
Trim(c) ==
  IF c = <<>> THEN c
  ELSE IF c[1] \in Space THEN Trim(Tail(c))
  ELSE IF c[Len(c)] \in Space THEN Trim(SubSeq(c, 1, Len(c) - 1))
  ELSE c

\* sanitizeUserContent on texts that hold no URL, no HTML character and, once
\* trimmed, no line break: the trimmed text
sanitizeUserContent(content) == Trim(content)

\* a loop that ends at the first mentioned actor whose turn raises
DirectDeliveryLoop_Abort(us, fs, username, authorId, mentionedActors, failed) ==
  LET stops == {n \in 1..Len(mentionedActors) : n \in failed}
      first == IF stops = {} THEN Len(mentionedActors) + 1
               ELSE CHOOSE n \in stops : \A k \in stops : n <= k
      RECURSIVE loop(_)
      loop(n) ==
        IF n = 0 THEN <<>>
        ELSE IF ~HasEdge(fs, authorId, mentionedActors[n].id)
        THEN loop(n - 1) \o sendActivity(us, username, "actor",
                                         <<Recipient(mentionedActors[n])>>, "Create").sent
        ELSE loop(n - 1)
  IN loop(first - 1)

\* the loop over the mentioned actors: a direct delivery to each one that is
\* not a follower of the author (inbox_url is NOT NULL and never empty, so the
\* second half of the condition holds for every row). Each turn is a try
\* block of its own: failed holds the positions whose follower check or
\* delivery raises, which the catch logs before the loop goes on
RECURSIVE DirectDeliveryLoop(_, _, _, _, _, _)
DirectDeliveryLoop(us, fs, username, authorId, mentionedActors, failed) ==
  IF mentionedActors = <<>> THEN <<>>
  ELSE LET n == Len(mentionedActors)
           front == DirectDeliveryLoop(us, fs, username, authorId,
                                       SubSeq(mentionedActors, 1, n - 1), failed)
           m == mentionedActors[n]
           isFollower == HasEdge(fs, authorId, m.id)
       IN IF n \notin failed /\ ~isFollower
          THEN front \o sendActivity(us, username, "actor", <<Recipient(m)>>, "Create").sent
          ELSE front

RECURSIVE DirectDeliveries_All(_, _, _, _, _)
\* a loop that delivers to every mentioned actor, follower or not
DirectDeliveries_All(us, fs, username, authorId, mentionedActors) ==
  IF mentionedActors = <<>> THEN <<>>
  ELSE DirectDeliveries_All(us, fs, username, authorId,
                            SubSeq(mentionedActors, 1, Len(mentionedActors) - 1))
       \o sendActivity(us, username, "actor",
                       <<Recipient(mentionedActors[Len(mentionedActors)])>>, "Create").sent

\* the loop when no turn raises
DirectDeliveries(us, fs, username, authorId, mentionedActors) ==
  DirectDeliveryLoop(us, fs, username, authorId, mentionedActors, {})

\* POST /users/:username/posts
CreatePost(session, username, content) ==
  /\ LET actor == ActorByUsername(users, actors, username)
     IN IF AuthUser(users, session) = None \/ actor = None \/ Trim(content) = <<>>
        THEN \* a redirect or the error page: nothing of the request is kept
             /\ UNCHANGED <<posts, mentions, notifications, sqlite_sequence>>
             /\ sent' = <<>>
             /\ last' = PostReq("CreatePost", None, <<>>, None, "rejected")
        ELSE LET id == NextId(posts)
                 url == getObjectUri(username, id)
                 taken == \E p \in posts : p.uri = PlaceholderUri \/ p.uri = url
                 post == [id |-> id, uri |-> url, actor_id |-> Get(actor).id,
                          content |-> sanitizeUserContent(content)]
                 pm == processMentions(users, actors, mentions, notifications,
                                       id, content, Get(actor).id)
                 mentionedActors == findMentionedUsers(users, actors, parseMentions(content))
                 fanout == sendActivity(users, username, "followers",
                                        FollowersItems(users, actors, follows, username),
                                        "Create")
             IN IF taken
                THEN \* the transaction rolls back and the request fails
                     /\ UNCHANGED <<posts, mentions, notifications, sqlite_sequence>>
                     /\ sent' = <<>>
                     /\ last' = PostReq("CreatePost", None, content, Some(Get(actor).id), "error")
                ELSE /\ Cardinality(posts) < MaxPosts
                     /\ Cardinality(pm.mentions) <= MaxRows
                     /\ Cardinality(pm.notifications) <= MaxRows
                     /\ posts' = posts \cup {post}
                     /\ mentions' = pm.mentions
                     /\ notifications' = pm.notifications
                     /\ sqlite_sequence' = Sequence(sqlite_sequence, pm.notifications)
                     /\ sqlite_sequence' <= MaxIds
                     /\ sent' = fanout.sent \o
                                DirectDeliveries(users, follows, username, Get(actor).id,
                                                 mentionedActors)
                     /\ last' = PostReq("CreatePost", Some(id), content, Some(Get(actor).id), "ok")
  /\ UNCHANGED <<users, actors, follows, runs, call, more>>

----------------------------------------------------------------------------
(* The notification routes *)

\* the value that is no number
NaN == None

\* Number(c.req.param("id")) on the texts these routes are given: one decimal
\* digit is its value, the empty text is 0, any other text is NaN
Number(text) ==
  IF text = <<>> THEN Some(0)
  ELSE IF Len(text) = 1 /\ \E d \in 1..9 : DigitChars[d] = text[1]
  THEN Some(CHOOSE d \in 1..9 : DigitChars[d] = text[1])
  ELSE NaN

\* the actor of the session's user: select id from actors where user_id = ...
SessionActor(session) ==
  LET authUser == AuthUser(users, session)
  IN IF authUser = None THEN None ELSE ActorByUserId(actors, Get(authUser).id)

\* the record of a notification request of the user
NotificationReq(op, username, id, result) ==
  [Req(op, Some(getActorUri(username)), None, None, result, FALSE, FALSE)
     EXCEPT !.id = id]

\* update notifications set is_read = 1 where id = ... (any recipient)
MarkOneRead_AnyRecipient(ns, notificationId, actorId) ==
  {IF n.id = notificationId THEN [n EXCEPT !.is_read = 1] ELSE n : n \in ns}

\* update notifications set is_read = 1 where id = ... and recipient_actor_id = ...
MarkOneRead(ns, notificationId, actorId) ==
  {IF n.id = notificationId /\ n.recipient_actor_id = actorId
   THEN [n EXCEPT !.is_read = 1] ELSE n : n \in ns}

\* update notifications set is_read = 1 where recipient_actor_id = ... and is_read = 0
MarkAllOfRecipientRead(ns, actorId) ==
  {IF n.recipient_actor_id = actorId /\ n.is_read = 0
   THEN [n EXCEPT !.is_read = 1] ELSE n : n \in ns}

\* delete from notifications where id = ... and recipient_actor_id = ...
DeleteOne(ns, notificationId, actorId) ==
  {n \in ns : ~ (n.id = notificationId /\ n.recipient_actor_id = actorId)}

\* delete from notifications where recipient_actor_id = ...
DeleteAllOfRecipient(ns, actorId) == {n \in ns : n.recipient_actor_id # actorId}

\* POST /notifications/:id/read by the session of the user
MarkRead(username, param) ==
  /\ LET notificationId == Number(param)
         actor == SessionActor(username)
     IN IF AuthUser(users, username) = None
        THEN /\ UNCHANGED notifications
             /\ last' = NotificationReq("MarkRead", username, None, "rejected")
        ELSE IF notificationId = NaN \/ actor = None
        THEN /\ UNCHANGED notifications
             /\ last' = NotificationReq("MarkRead", username, None, "redirect")
        ELSE /\ notifications' = MarkOneRead(notifications, Get(notificationId), Get(actor).id)
             /\ last' = NotificationReq("MarkRead", username, notificationId, "ok")
  /\ sent' = <<>>
  /\ UNCHANGED <<users, actors, follows, posts, mentions, sqlite_sequence, runs, call, more>>

\* POST /notifications/mark-all-read
MarkAllRead(username) ==
  /\ LET actor == SessionActor(username)
     IN IF AuthUser(users, username) = None
        THEN /\ UNCHANGED notifications
             /\ last' = NotificationReq("MarkAllRead", username, None, "rejected")
        ELSE IF actor = None
        THEN /\ UNCHANGED notifications
             /\ last' = NotificationReq("MarkAllRead", username, None, "redirect")
        ELSE /\ notifications' = MarkAllOfRecipientRead(notifications, Get(actor).id)
             /\ last' = NotificationReq("MarkAllRead", username, None, "ok")
  /\ sent' = <<>>
  /\ UNCHANGED <<users, actors, follows, posts, mentions, sqlite_sequence, runs, call, more>>

\* POST /notifications/:id/delete
DeleteNotification(username, param) ==
  /\ LET notificationId == Number(param)
         actor == SessionActor(username)
     IN IF AuthUser(users, username) = None
        THEN /\ UNCHANGED notifications
             /\ last' = NotificationReq("DeleteNotification", username, None, "rejected")
        ELSE IF notificationId = NaN \/ actor = None
        THEN /\ UNCHANGED notifications
             /\ last' = NotificationReq("DeleteNotification", username, None, "redirect")
        ELSE /\ notifications' = DeleteOne(notifications, Get(notificationId), Get(actor).id)
             /\ last' = NotificationReq("DeleteNotification", username,
                                        notificationId, "ok")
  /\ sent' = <<>>
  /\ UNCHANGED <<users, actors, follows, posts, mentions, sqlite_sequence, runs, call, more>>

\* POST /notifications/clear
ClearNotifications(username) ==
  /\ LET actor == SessionActor(username)
     IN IF AuthUser(users, username) = None
        THEN /\ UNCHANGED notifications
             /\ last' = NotificationReq("ClearNotifications", username, None, "rejected")
        ELSE IF actor = None
        THEN /\ UNCHANGED notifications
             /\ last' = NotificationReq("ClearNotifications", username, None, "redirect")
        ELSE /\ notifications' = DeleteAllOfRecipient(notifications, Get(actor).id)
             /\ last' = NotificationReq("ClearNotifications", username, None, "ok")
  /\ sent' = <<>>
  /\ UNCHANGED <<users, actors, follows, posts, mentions, sqlite_sequence, runs, call, more>>

----------------------------------------------------------------------------
(* The post, profile and unfollow routes step by step: a request in flight
   sits in runs between its database statements and its deliveries *)

\* a request in flight: the route, the position, the user of the path, the
\* actor id read for the user, and what the statements so far produced
Request(fn, pc, username, actorId) ==
  [fn |-> fn, pc |-> pc, username |-> username, actorId |-> actorId, row |-> None,
   content |-> <<>>, name |-> None, targetId |-> None, targetUri |-> None,
   mentioned |-> <<>>, sent |-> <<>>]

\* a backfill that leaves the row as inserted
BackfillUri_Skip(row, url) == row

\* trx.updateTable("posts").set({uri: url, url: url}).where("id", "=", insertedPost.id)
BackfillUri(row, url) == [row EXCEPT !.uri = url]

\* POST /users/:username/posts, up to the insert inside the transaction: the
\* row is written with the placeholder URI and is visible to the transaction only
PostInsert(session, username, content) ==
  /\ Len(runs) < MaxRuns
  /\ LET actor == ActorByUsername(users, actors, username)
     IN IF AuthUser(users, session) = None \/ actor = None \/ Trim(content) = <<>>
        THEN /\ UNCHANGED runs
             /\ last' = PostReq("PostInsert", None, <<>>, None, "rejected")
        ELSE LET id == NextId(posts)
                 insertedPost == [id |-> id, uri |-> PlaceholderUri,
                                  actor_id |-> Get(actor).id,
                                  content |-> sanitizeUserContent(content)]
             IN \* one transaction writes at a time
                /\ \A i \in 1..Len(runs) : ~ (runs[i].fn = "post" /\ runs[i].pc = "inserted")
                /\ Cardinality(posts) < MaxPosts
                /\ IF \E p \in posts : p.uri = PlaceholderUri
                   THEN /\ UNCHANGED runs
                        /\ last' = PostReq("PostInsert", None, content,
                                           Some(Get(actor).id), "error")
                   ELSE /\ runs' = Append(runs, [Request("post", "inserted", username,
                                                         Get(actor).id)
                                                   EXCEPT !.row = Some(insertedPost),
                                                          !.content = content])
                        /\ last' = PostReq("PostInsert", Some(id), content,
                                           Some(Get(actor).id), "ok")
  /\ sent' = <<>>
  /\ UNCHANGED <<tables, call, more>>

\* the update of the URI and the end of the transaction: a commit, or the
\* rollback when the update raises
PostBackfill(i, raises) ==
  /\ runs[i].fn = "post" /\ runs[i].pc = "inserted"
  /\ LET insertedPost == Get(runs[i].row)
         url == getObjectUri(runs[i].username, insertedPost.id)
         req(result) == PostReq("PostBackfill", Some(insertedPost.id), runs[i].content,
                                Some(runs[i].actorId), result)
     IN IF raises \/ \E p \in posts : p.uri = url
        THEN /\ UNCHANGED posts
             /\ runs' = Without(runs, i)
             /\ last' = req("error")
        ELSE /\ posts' = posts \cup {BackfillUri(insertedPost, url)}
             /\ runs' = [runs EXCEPT ![i].pc = "deliver",
                                     ![i].row = Some(BackfillUri(insertedPost, url))]
             /\ last' = req("ok")
  /\ sent' = <<>>
  /\ UNCHANGED <<users, actors, follows, mentions, notifications, sqlite_sequence, call, more>>

\* the next part of the route: processMentions, whose errors are caught, the
\* mentioned actors and the Create for the followers; delivers tells whether
\* sendActivity for the followers returns or raises
PostDeliver(i, delivers) ==
  /\ runs[i].fn = "post" /\ runs[i].pc = "deliver"
  /\ LET post == Get(runs[i].row)
         username == runs[i].username
         content == runs[i].content
         pm == processMentions(users, actors, mentions, notifications,
                               post.id, content, runs[i].actorId)
         mentionedActors == findMentionedUsers(users, actors, parseMentions(content))
         fanout == sendActivity(users, username, "followers",
                                FollowersItems(users, actors, follows, username), "Create")
         done == delivers /\ fanout.result = "ok"
     IN /\ Cardinality(pm.mentions) <= MaxRows
        /\ Cardinality(pm.notifications) <= MaxRows
        /\ mentions' = pm.mentions
        /\ notifications' = pm.notifications
        /\ sqlite_sequence' = Sequence(sqlite_sequence, pm.notifications)
        /\ sqlite_sequence' <= MaxIds
        /\ sent' = IF done THEN fanout.sent ELSE <<>>
        /\ runs' = IF done
                   THEN [runs EXCEPT ![i].pc = "direct",
                                     ![i].mentioned = mentionedActors,
                                     ![i].sent = fanout.sent]
                   ELSE Without(runs, i)
        /\ last' = PostReq("PostDeliver", Some(post.id), content, Some(runs[i].actorId),
                           IF done THEN "ok" ELSE "error")
  /\ UNCHANGED <<users, actors, follows, posts, call, more>>

\* the loop over the mentioned actors and the redirect that ends the request;
\* sent holds every activity the request handed over
PostDirect(i, failed) ==
  /\ runs[i].fn = "post" /\ runs[i].pc = "direct"
  /\ failed \subseteq 1..Len(runs[i].mentioned)
  /\ sent' = runs[i].sent \o DirectDeliveryLoop(users, follows, runs[i].username,
                                                runs[i].actorId, runs[i].mentioned, failed)
  /\ last' = PostReq("PostDirect", Some(Get(runs[i].row).id), runs[i].content,
                     Some(runs[i].actorId), "ok")
  /\ runs' = Without(runs, i)
  /\ UNCHANGED <<tables, call, more>>

\* users inner join actors on users.id = actors.user_id where username = ...
UserWithActor(us, as, username) ==
  LET u == UserByUsername(us, username)
      a == IF u = None THEN None ELSE ActorByUserId(as, Get(u).id)
  IN IF a = None THEN None ELSE Some(SelectAllJoined(Get(u), Get(a)))

\* update actors set name = ..., updated = ... where user_id = ...
UpdateProfile(as, userId, name) ==
  {IF r.user_id = Some(userId)
   THEN [r EXCEPT !.name = NameOrNull(name), !.updated = UpdateTime]
   ELSE r : r \in as}

\* POST /users/:username/profile, up to the update: form = [name, valid], valid
\* telling whether the lengths, the website and the files pass the checks
ProfileStore(session, username, form) ==
  /\ Len(runs) < MaxRuns
  /\ LET authUser == AuthUser(users, session)
         user == UserWithActor(users, actors, username)
         req(result) == Req("ProfileStore", Some(getActorUri(username)), None, None,
                            result, FALSE, FALSE)
     IN IF \/ authUser = None \/ Get(authUser).username # username
           \/ user = None \/ ~form.valid
        THEN /\ UNCHANGED <<actors, runs>>
             /\ last' = req("rejected")
        ELSE /\ actors' = UpdateProfile(actors, Get(user).id, Some(form.name))
             /\ runs' = Append(runs, [Request("profile", "send", username, Get(user).id)
                                        EXCEPT !.name = Some(form.name)])
             /\ last' = req("ok")
  /\ sent' = <<>>
  /\ UNCHANGED <<users, follows, posts, mentions, notifications, sqlite_sequence, call, more>>

\* the broadcast of the Update, every error of which is caught
ProfileSend(i, delivers) ==
  /\ runs[i].fn = "profile" /\ runs[i].pc = "send"
  /\ LET username == runs[i].username
         person == ActorDoc(users, actors, username)
         out == IF person = None \/ ~delivers THEN [result |-> "error", sent |-> <<>>]
                ELSE sendActivity(users, username, "followers",
                                  FollowersItems(users, actors, follows, username), "Update")
     IN /\ sent' = out.sent
        /\ last' = Req("ProfileSend", Some(getActorUri(username)), None, None, "ok",
                       person # None, FALSE)
  /\ runs' = Without(runs, i)
  /\ UNCHANGED <<tables, call, more>>

\* POST /users/:username/unfollow, up to the delete
UnfollowDelete(session, username, actorId) ==
  /\ Len(runs) < MaxRuns
  /\ LET authUser == AuthUser(users, session)
         currentUserActor == IF authUser = None THEN None
                             ELSE ActorByUserId(actors, Get(authUser).id)
         found == {r \in actors : r.id = actorId}
         targetActor == IF found = {} THEN None ELSE Some(CHOOSE r \in found : TRUE)
         targetUri == IF targetActor = None THEN None ELSE Some(Get(targetActor).uri)
         req(result, hadEdge) ==
           [Req("UnfollowDelete", Some(getActorUri(username)), None, targetUri, result,
                targetActor # None, hadEdge) EXCEPT !.id = Some(actorId)]
     IN IF authUser = None \/ currentUserActor = None
        THEN /\ UNCHANGED <<follows, requested, runs>>
             /\ last' = req("rejected", FALSE)
        ELSE /\ follows' = DeleteFollowing(follows, Get(currentUserActor).id, actorId)
             /\ runs' = Append(runs, [Request("unfollow", "send", username,
                                              Get(currentUserActor).id)
                                        EXCEPT !.targetId = Some(actorId),
                                               !.targetUri = targetUri])
             /\ last' = req("ok", HasEdge(follows, actorId, Get(currentUserActor).id))
             /\ requested' = IF targetUri = None THEN requested
                             ELSE requested \ {<<username, Get(targetUri)>>}
  /\ sent' = <<>>
  /\ UNCHANGED <<users, actors, posts, mentions, notifications, sqlite_sequence, call,
                 keys, dispatches>>

\* the Undo(Follow) for the target that was found, every error of which is caught
UnfollowSend(i, delivers) ==
  /\ runs[i].fn = "unfollow" /\ runs[i].pc = "send"
  /\ LET username == runs[i].username
         targetUri == runs[i].targetUri
         out == IF targetUri = None \/ ~delivers \/ ActorByUri(actors, Get(targetUri)) = None
                THEN [result |-> "error", sent |-> <<>>]
                ELSE sendUndoFollow(users, actors, username, Get(targetUri))
     IN /\ sent' = out.sent
        /\ last' = [Req("UnfollowSend", Some(getActorUri(username)), None, targetUri, "ok",
                        targetUri # None, FALSE) EXCEPT !.id = runs[i].targetId]
  /\ runs' = Without(runs, i)
  /\ UNCHANGED <<tables, call, more>>

\* the UNIQUE constraint on users.username: an insert of a taken name raises
UsernameTaken(us, username) == \E u \in us : u.username = username

\* a transaction that keeps the user row when the insert of the actor fails
RegisterTransaction_KeepsUser(us, as, insertedUser, row, userFails, actorFails) ==
  IF userFails THEN [users |-> us, actors |-> as, result |-> "error"]
  ELSE IF actorFails
  THEN [users |-> us \cup {insertedUser}, actors |-> as, result |-> "error"]
  ELSE [users |-> us \cup {insertedUser}, actors |-> as \cup {row}, result |-> "ok"]

\* db.transaction().execute(...) of the registration: both rows, or, when an
\* insert raises, neither
RegisterTransaction(us, as, insertedUser, row, userFails, actorFails) ==
  IF userFails \/ actorFails
  THEN [users |-> us, actors |-> as, result |-> "error"]
  ELSE [users |-> us \cup {insertedUser}, actors |-> as \cup {row}, result |-> "ok"]

\* POST /register up to the select that looks for the username: the checks of
\* the form and of the existing user, before the transaction begins
RegisterCheck(username, name) ==
  /\ Len(runs) < MaxRuns
  /\ LET existingUser == UserByUsername(users, username)
         req(result) == Req("RegisterCheck", Some(getActorUri(username)), None, None,
                            result, FALSE, FALSE)
     IN IF ~ValidUsername(username) \/ existingUser # None
        THEN /\ UNCHANGED runs
             /\ last' = req("rejected")
        ELSE /\ runs' = Append(runs, [Request("register", "checked", username, None)
                                        EXCEPT !.name = Some(name)])
             /\ last' = req("ok")
  /\ sent' = <<>>
  /\ UNCHANGED <<tables, call, more>>

\* the transaction of POST /register: the insert of the user, with the id 0
\* for the first one, and the insert of the actor; an error of either insert
\* rolls both back and the route redirects to the form. raises tells whether
\* the insert of the actor fails for a reason outside the tables
RegisterStore(i, raises) ==
  /\ runs[i].fn = "register" /\ runs[i].pc = "checked"
  /\ LET username == runs[i].username
         isFirstUser == ~ \E u \in users : u.id = 0
         userId == IF isFirstUser THEN 0 ELSE NextId(users)
         insertedUser == [id |-> userId, username |-> username]
         handle == <<"@">> \o username \o <<"@">> \o Host
         row == [id |-> NextId(actors), user_id |-> Some(insertedUser.id),
                 uri |-> getActorUri(username), handle |-> handle,
                 name |-> runs[i].name, inbox_url |-> getInboxUri(username),
                 shared_inbox_url |-> Some(getSharedInboxUri),
                 url |-> Some(getActorUri(username)),
                 updated |-> DefaultUpdated, created |-> CreatedAt(actors)]
         userFails == UsernameTaken(users, username)
         actorFails == \/ raises
                       \/ ActorClash(actors, row.uri, row.handle, row.inbox_url)
                       \/ ActorByUri(actors, row.uri) # None
                       \/ \E r \in actors : r.user_id = row.user_id
         req(result) == Req("RegisterStore", Some(getActorUri(username)), None, None,
                            result, FALSE, FALSE)
         trx == RegisterTransaction(users, actors, insertedUser, row, userFails, actorFails)
     IN /\ users' = trx.users
        /\ actors' = trx.actors
        /\ last' = req(trx.result)
  /\ runs' = Without(runs, i)
  /\ sent' = <<>>
  /\ UNCHANGED <<follows, posts, mentions, notifications, sqlite_sequence, call, more>>

----------------------------------------------------------------------------
(* The inputs of the inbox *)

Names == {"Ann"}

\* the documents a fetch of the sender can return: a remote document, or the
\* document this server serves for its own user bob
Documents == RemoteDescriptors \cup
  (IF ActorDoc(users, actors, Bob) = None THEN {} ELSE {Get(ActorDoc(users, actors, Bob))})

\* Follows of alice by every document, a Follow of bob, Follows of a user that
\* does not exist, and one Follow for each early return of the listener
FollowActivities ==
  {[actor |-> Some(d), objectId |-> Some(getActorUri(Alice))] : d \in Documents}
  \cup {[actor |-> Some(Carol1), objectId |-> Some(getActorUri(Bob))]}
  \cup {[actor |-> Some(d), objectId |-> Some(getActorUri(Zed))] : d \in {Carol1, CarolNoInbox}}
  \cup {[actor |-> Some(Carol1), objectId |-> None],
        [actor |-> Some(Carol1), objectId |-> Some(CarolUri)],
        [actor |-> Some(Carol1), objectId |-> Some(getInboxUri(Alice))],
        [actor |-> None, objectId |-> Some(getActorUri(Alice))]}

UndoFollow(actorId, objectId) ==
  [actorId |-> actorId, object |-> Some([type |-> "Follow", objectId |-> objectId])]

UndoActivities ==
  {UndoFollow(Some(a), Some(getActorUri(Alice))) : a \in {CarolUri, getActorUri(Bob)}}
  \cup {UndoFollow(Some(CarolUri), Some(getActorUri(Zed))),
        UndoFollow(None, Some(getActorUri(Alice))),
        UndoFollow(Some(CarolUri), None),
        UndoFollow(Some(CarolUri), Some(getInboxUri(Alice))),
        [actorId |-> Some(CarolUri), object |-> None],
        [actorId |-> Some(CarolUri),
         object |-> Some([type |-> "Note", objectId |-> Some(getActorUri(Alice))])]}

AcceptFollow(actor, actorId) ==
  [actor |-> actor, object |-> Some([type |-> "Follow", actorId |-> actorId])]

AcceptActivities ==
  {AcceptFollow(Some(d), Some(getActorUri(Bob))) : d \in {Carol1, CarolNoInbox}}
  \cup {AcceptFollow(Some(Carol1), Some(getActorUri(Zed))),
        AcceptFollow(None, Some(getActorUri(Bob))),
        AcceptFollow(Some(Carol1), None),
        AcceptFollow(Some(Carol1), Some(CarolUri)),
        [actor |-> Some(Carol1), object |-> None],
        [actor |-> Some(Carol1),
         object |-> Some([type |-> "Note", actorId |-> Some(getActorUri(Bob))])]}

----------------------------------------------------------------------------
(* The inputs of the Create and Update listeners, and the Follows, Undos and
   Accepts that arrive among them *)

NoteUri == Uri(RemoteHost, "notes", <<"1">>)
NoteContent == <<"h", "i">>

Attributed(type, d) == Some([type |-> type, doc |-> d])

Note(id, content, attribution) ==
  Some([type |-> "Note", id |-> id, content |-> content, attribution |-> attribution])

CreateNote(actorId, attribution) ==
  [actorId |-> actorId, object |-> Note(Some(NoteUri), Some(NoteContent), attribution)]

\* carol's note, attributed to carol and sent by carol
ValidCreates == {CreateNote(Some(CarolUri), Attributed("Person", Carol1))}

\* a note whose author is missing, is no actor, carries no id, or is carol
\* while the sender is eve
SpoofedCreates ==
  {CreateNote(Some(EveUri), Attributed("Person", Carol2)),
   CreateNote(Some(CarolUri), Attributed("Note", Carol2)),
   CreateNote(Some(CarolUri), Attributed("Person", CarolNoId)),
   CreateNote(Some(CarolUri), None)}

\* a note whose author has no inbox
NoInboxCreates == {CreateNote(Some(CarolUri), Attributed("Person", CarolNoInbox))}

\* a note without id or content, no object, an object that is no Note, no sender
MalformedCreates ==
  {[actorId |-> Some(CarolUri),
    object |-> Note(None, Some(NoteContent), Attributed("Person", Carol1))],
   [actorId |-> Some(CarolUri),
    object |-> Note(Some(NoteUri), None, Attributed("Person", Carol1))],
   [actorId |-> Some(CarolUri), object |-> None],
   [actorId |-> Some(CarolUri),
    object |-> Some([type |-> "Person", id |-> Some(CarolUri), content |-> None,
                     attribution |-> None])],
   CreateNote(None, Attributed("Person", Carol1))}

Creates == ValidCreates \cup SpoofedCreates \cup NoInboxCreates \cup MalformedCreates

UpdatePerson(actorId, id, name) ==
  [actorId |-> actorId, object |-> Some([type |-> "Person", id |-> id, name |-> name])]

\* an actor updating itself: carol (remote) and alice (the actor of a user)
OwnUpdates ==
  {UpdatePerson(Some(CarolUri), Some(CarolUri), n) : n \in {Some("Caz"), Some(""), None}}
  \cup {UpdatePerson(Some(getActorUri(Alice)), Some(getActorUri(Alice)), Some("Al"))}

\* an Update of carol sent by eve, and one whose object has no id
ForeignUpdates ==
  {UpdatePerson(Some(EveUri), Some(CarolUri), Some("Eve")),
   UpdatePerson(Some(CarolUri), None, Some("Caz"))}

\* no object, an object that is no Person, no sender
MalformedUpdates ==
  {[actorId |-> Some(CarolUri), object |-> None],
   [actorId |-> Some(CarolUri),
    object |-> Some([type |-> "Note", id |-> Some(CarolUri), name |-> None])],
   UpdatePerson(None, Some(CarolUri), Some("Caz"))}

Updates == OwnUpdates \cup ForeignUpdates \cup MalformedUpdates

\* Follows the listener returns from before it fetches or stores anything: no
\* object, an object that is no actor URI of this server, no follower
DroppedFollows ==
  {[actor |-> Some(Carol1), objectId |-> None],
   [actor |-> Some(Carol1), objectId |-> Some(CarolUri)],
   [actor |-> Some(Carol1), objectId |-> Some(getInboxUri(Alice))],
   [actor |-> None, objectId |-> Some(getActorUri(Alice))]}

\* Follows of a user that does not exist
StrayFollows == {[actor |-> Some(Carol1), objectId |-> Some(getActorUri(Zed))]}

\* Follows of alice by a document persistActor rejects
RejectedFollows ==
  {[actor |-> Some(d), objectId |-> Some(getActorUri(Alice))] : d \in {CarolNoInbox, CarolNoId}}

InboxFollows ==
  {[actor |-> Some(Carol1), objectId |-> Some(getActorUri(Alice))]}
  \cup DroppedFollows \cup StrayFollows \cup RejectedFollows

MalformedUndos ==
  {UndoFollow(None, Some(getActorUri(Alice))),
   UndoFollow(Some(CarolUri), None),
   UndoFollow(Some(CarolUri), Some(getInboxUri(Alice))),
   [actorId |-> Some(CarolUri), object |-> None],
   [actorId |-> Some(CarolUri),
    object |-> Some([type |-> "Note", objectId |-> Some(getActorUri(Alice))])]}

\* Undos of a Follow of a user that does not exist
StrayUndos == {UndoFollow(Some(CarolUri), Some(getActorUri(Zed)))}

InboxUndos ==
  {UndoFollow(Some(CarolUri), Some(getActorUri(Alice)))}
  \cup MalformedUndos \cup StrayUndos

MalformedAccepts ==
  {AcceptFollow(None, Some(getActorUri(Alice))),
   AcceptFollow(Some(Carol1), None),
   AcceptFollow(Some(Carol1), Some(CarolUri)),
   [actor |-> Some(Carol1), object |-> None],
   [actor |-> Some(Carol1),
    object |-> Some([type |-> "Note", actorId |-> Some(getActorUri(Alice))])]}

\* Accepts of a Follow by a user that does not exist
StrayAccepts == {AcceptFollow(Some(Carol1), Some(getActorUri(Zed)))}

\* Accepts of alice's Follow by a document persistActor rejects
RejectedAccepts ==
  {AcceptFollow(Some(d), Some(getActorUri(Alice))) : d \in {CarolNoInbox, CarolNoId}}

InboxAccepts ==
  {AcceptFollow(Some(Carol1), Some(getActorUri(Alice)))}
  \cup MalformedAccepts \cup StrayAccepts \cup RejectedAccepts

\* what lookupObject finds for the handle typed into the follow form: carol,
\* eve, or no actor
FollowTargets == {Some(Carol1), Some(Eve), None}

\* the ids typed into the unfollow form: the ids of the first three actors
UnfollowIds == 1..3

\* the Follows of bob by carol and by eve, whose rows have the id of the user
\* bob as their following (with kim, alice and bob registered in this order
\* before any remote actor is stored, the id of alice's actor), and the Follow
\* of alice by carol
FollowerFollows ==
  {[actor |-> Some(d), objectId |-> Some(getActorUri(Bob))] : d \in {Carol1, Eve}}
  \cup {[actor |-> Some(Carol1), objectId |-> Some(getActorUri(Alice))]}

\* carol's Accept of a Follow of alice: an edge towards a remote actor
FollowerAccepts == {AcceptFollow(Some(Carol1), Some(getActorUri(Alice)))}

\* carol's Undo of her Follow of alice
FollowerUndos == {UndoFollow(Some(CarolUri), Some(getActorUri(Alice)))}

\* the usernames typed into the registration form: alice, bob and a name the
\* pattern rejects
RegisterUsernames == Usernames \cup {<<"A">>}

\* the Accepts of carol and of eve for a Follow of alice
UnfollowAccepts == {AcceptFollow(Some(d), Some(getActorUri(Alice))) : d \in {Carol1, Eve}}

\* a Follow of alice by carol, which stores carol's actor row
RegisterFollows == {[actor |-> Some(Carol1), objectId |-> Some(getActorUri(Alice))]}

----------------------------------------------------------------------------
(* Calls of saveMentions and createMentionNotifications in flight: each call
   reads the existing rows at one await and inserts at a later one, and the
   steps of two calls interleave *)

Run(fn, postId, authorActorId, mentionedActors) ==
  [fn |-> fn, pc |-> "read", postId |-> postId, authorActorId |-> authorActorId,
   mentionedActors |-> mentionedActors, existing |-> {}]

\* saveMentions is called: an empty list returns at once
CallSaveMentions(postId, mentionedActors) ==
  /\ Len(runs) < MaxRuns
  /\ runs' = IF mentionedActors = <<>> THEN runs
             ELSE Append(runs, Run("saveMentions", postId, 0, mentionedActors))
  /\ UNCHANGED <<tables, sent, last, call, more>>

\* the select of saveMentions
SaveMentionsRead(i) ==
  /\ runs[i].fn = "saveMentions" /\ runs[i].pc = "read"
  /\ runs' = [runs EXCEPT ![i].pc = "insert",
                          ![i].existing = ExistingMentions(mentions, runs[i].postId)]
  /\ UNCHANGED <<tables, sent, last, call, more>>

\* the insert of saveMentions
SaveMentionsInsert(i) ==
  /\ runs[i].fn = "saveMentions" /\ runs[i].pc = "insert"
  /\ mentions' = InsertRows(mentions, NewMentions(runs[i].postId, runs[i].mentionedActors,
                                                  runs[i].existing))
  /\ Cardinality(mentions') <= MaxRows
  /\ runs' = Without(runs, i)
  /\ UNCHANGED <<users, actors, follows, posts, notifications, sqlite_sequence, sent, last, call, more>>

\* createMentionNotifications is called: an empty list returns at once
CallCreateMentionNotifications(postId, authorActorId, mentionedActors) ==
  /\ Len(runs) < MaxRuns
  /\ runs' = IF mentionedActors = <<>> THEN runs
             ELSE Append(runs, Run("createMentionNotifications", postId, authorActorId,
                                   mentionedActors))
  /\ UNCHANGED <<tables, sent, last, call, more>>

\* the selects of createMentionNotifications: the author, then the recipients
\* already notified; the call ends with an error when the author is missing
NotificationsRead(i) ==
  /\ runs[i].fn = "createMentionNotifications" /\ runs[i].pc = "read"
  /\ runs' = IF \E r \in actors : r.id = runs[i].authorActorId
             THEN [runs EXCEPT ![i].pc = "insert",
                               ![i].existing = ExistingNotifications(notifications,
                                                 runs[i].postId, runs[i].authorActorId)]
             ELSE Without(runs, i)
  /\ UNCHANGED <<tables, sent, last, call, more>>

\* the insert of createMentionNotifications
NotificationsInsert(i) ==
  /\ runs[i].fn = "createMentionNotifications" /\ runs[i].pc = "insert"
  /\ notifications' = InsertAfter(notifications, sqlite_sequence,
                                  NewNotifications(runs[i].postId, runs[i].authorActorId,
                                                   runs[i].mentionedActors, runs[i].existing))
  /\ sqlite_sequence' = Sequence(sqlite_sequence, notifications')
  /\ sqlite_sequence' <= MaxIds
  /\ Cardinality(notifications') <= MaxRows
  /\ runs' = Without(runs, i)
  /\ UNCHANGED <<users, actors, follows, posts, mentions, sent, last, call, more>>

----------------------------------------------------------------------------
(* The inputs of the post route and of the mention functions *)

ContentB == <<"@", "b">>
ContentAB == <<"@", "a", " ", "@", "b">>
ContentPlain == <<"h", "i">>
ContentBlank == <<" ">>
Contents == {ContentB, ContentAB, ContentPlain, ContentBlank}

\* the Follows the local user bob sends: of alice and of himself. With kim,
\* alice and bob registered in this order, the second one is the Follow whose
\* row has the id of alice's actor as its following
PostFollowActivities ==
  {[actor |-> Some(d), objectId |-> Some(getActorUri(u))] :
     d \in (IF ActorDoc(users, actors, Bob) = None THEN {}
            ELSE {Get(ActorDoc(users, actors, Bob))}),
     u \in Usernames}

PostUndoActivities == {UndoFollow(Some(getActorUri(Bob)), Some(getActorUri(Alice)))}

\* the post the mention functions are called for: the oldest one stored
PostIds == {p.id : p \in {q \in posts : \A r \in posts : q.id <= r.id}}

\* the author of a stored post, and one id no Actor row has
AuthorIds == {p.actor_id : p \in posts} \cup {NextId(actors)}

\* the posts submitted: alice's, and one of a user that does not exist
PostRequests == {<<Alice, c>> : c \in Contents} \cup {<<Zed, ContentB>>}

\* the retries of processMentions: for the oldest post and its author with a
\* content that mentions bob, and one for an author no Actor row has
Retries ==
  {<<p.id, c, p.actor_id>> : p \in {q \in posts : q.id \in PostIds}, c \in {ContentB, ContentAB}}
  \cup {<<id, ContentB, NextId(actors)>> : id \in PostIds}

\* the accounts are registered in the order kim, alice, bob: kim is the user
\* with id 0
Registrations ==
  IF users = {} THEN {Kim} ELSE IF Cardinality(users) = 1 THEN {Alice} ELSE Usernames

\* the accounts are registered in the order kim, alice
Founders == IF users = {} THEN {Kim} ELSE {Alice}

\* the lists of resolved actors: bob, bob twice
SaveLists ==
  LET bob == ActorByUsername(users, actors, Bob)
  IN IF bob = None THEN {} ELSE {<<Get(bob)>>, <<Get(bob), Get(bob)>>}

\* the lists findMentionedUsers returns for the contents: bob, alice and bob
NotifyLists ==
  LET alice == ActorByUsername(users, actors, Alice)
      bob == ActorByUsername(users, actors, Bob)
  IN IF bob = None THEN {}
     ELSE {<<Get(bob)>>} \cup (IF alice = None THEN {} ELSE {<<Get(alice), Get(bob)>>})

\* no call yet
NoCall == [fn |-> "none", usernames |-> <<>>, failed |-> {}, content |-> <<>>, result |-> <<>>]

\* the texts of the :id parameter: the ids of the table, and one that is no number
IdParams == {<<DigitChars[i]>> : i \in 1..MaxIds} \cup {<<"x">>}

\* the posts of the notification scenario: alice and bob each mention alice and bob
NotifyPosts == {<<Alice, ContentAB>>, <<Bob, ContentAB>>}

\* processMentions run again for a stored post with its own content and author
NotifyRetries == {<<p.id, p.content, p.actor_id>> : p \in posts}

\* the posts of the stepwise route: one that mentions bob, one that is blank
StepContents == {ContentB, ContentBlank}

\* the contents of the posts whose deliveries are followed turn by turn
DirectContents == {ContentAB}

\* the profile forms: a new name, no name, and a form that fails a check
ProfileForms == {[name |-> "Bea", valid |-> TRUE], [name |-> "", valid |-> TRUE],
                 [name |-> "Bea", valid |-> FALSE]}

----------------------------------------------------------------------------
(* The texts parseMentions is given *)

\* the pieces the texts are put together from
Pieces == {<<"@">>, <<"a">>, <<"B">>, <<" ">>, <<".">>, <<"c", "c">>}

RECURSIVE Flatten(_)
Flatten(ps) == IF ps = <<>> THEN <<>> ELSE Head(ps) \o Flatten(Tail(ps))

\* "hi @alice and @bob@example.com @alice"
ExampleText ==
  <<"h", "i", " ", "@", "a", "l", "i", "c", "e", " ", "a", "n", "d", " ",
    "@", "b", "o", "b", "@", "e", "x", "a", "m", "p", "l", "e", ".", "c", "o", "m", " ",
    "@", "a", "l", "i", "c", "e">>

\* every text of at most max pieces, and the example
Texts(max) ==
  {Flatten(ps) : ps \in UNION {[1..n -> Pieces] : n \in 0..max}} \cup {ExampleText}

\* the tokens findMentionedUsers is given: alice, a name nobody has, and
\* carol's name@domain
Tokens == {Alice, Zed, <<"c", "@">> \o RemoteHost}

\* every list of at most MaxTokens tokens
TokenLists == UNION {[1..n -> Tokens] : n \in 0..MaxTokens}

InitParse ==
  /\ users = {} /\ actors = {} /\ follows = <<>> /\ posts = {}
  /\ mentions = {} /\ notifications = {}
  /\ sent = <<>> /\ last = Dropped("none") /\ runs = <<>>
  /\ \E t \in Texts(MaxPieces) : call = [NoCall EXCEPT !.fn = "text", !.content = t]
  /\ keys = {} /\ dispatches = <<>> /\ requested = {}
  /\ sqlite_sequence = 0

----------------------------------------------------------------------------
Init ==
  /\ users = {}
  /\ actors = {}
  /\ follows = <<>>
  /\ posts = {}
  /\ mentions = {}
  /\ notifications = {}
  /\ sent = <<>>
  /\ last = Dropped("none")
  /\ runs = <<>>
  /\ call = NoCall
  /\ keys = {}
  /\ dispatches = <<>>
  /\ requested = {}
  /\ sqlite_sequence = 0

----------------------------------------------------------------------------
(* Properties *)

RowsWithUri(as, uri) == {r \in as : r.uri = uri}

\* the row carries the five fields of the document
CarriesFields(r, d) ==
  /\ d.preferredUsername # None /\ d.id # None
  /\ r.handle = <<"@">> \o Get(d.preferredUsername) \o <<"@">> \o Get(d.id).host
  /\ r.name = d.name
  /\ Some(r.inbox_url) = d.inboxId
  /\ r.shared_inbox_url = d.sharedInbox
  /\ r.url = d.url

\* a row with another URI holds the handle or the inbox URI of the document
HeldByAnother(as, d) ==
  \E r \in as :
    /\ r.uri # Get(d.id)
    /\ \/ r.handle = <<"@">> \o Get(d.preferredUsername) \o <<"@">> \o Get(d.id).host
       \/ Some(r.inbox_url) = d.inboxId

\* a FollowEdge (following = the actor of the local user, follower = the actor
\* with the URI) is stored
EdgeBetween(us, as, fs, username, followerUri) ==
  \E u \in us, l \in as, r \in as, i \in 1..Len(fs) :
    /\ u.username = username /\ l.user_id = Some(u.id) /\ r.uri = followerUri
    /\ fs[i].following_id = l.id /\ fs[i].follower_id = r.id

IdentifierOf(objectId) == Get(parseUri(objectId)).identifier

\* C1 as stated: after an upsertActor call for URI u, whatever its other
\* fields, exactly one Actor row has URI u and it carries the handle, display
\* name, inbox URI, shared-inbox URI and profile URL of that call.
C1_AnyFieldsLastWriteWins ==
  last.op = "UpsertActor" =>
    LET rows == RowsWithUri(actors, Get(last.actorId))
    IN Cardinality(rows) = 1 /\ \A r \in rows : CarriesFields(r, Get(last.d))

\* C1 amended: no two Actor rows ever share a URI; a persistActor call whose
\* document has an inbox URI, and whose handle and inbox URI are held by no
\* row with another URI, leaves exactly one row with its URI, carrying the
\* five fields of that call; any other persistActor call leaves the actors
\* table as it was.
C1_LastWriteWins ==
  [][ (last'.op \in {"UpsertActor", "Follow", "Accept"} /\ last'.d # None) =>
        LET d == Get(last'.d)
            rows == RowsWithUri(actors', Get(d.id))
        IN /\ \A r1, r2 \in actors' : r1.uri = r2.uri => r1 = r2
           /\ IF d.id # None /\ d.inboxId # None /\ ~HeldByAnother(actors, d)
              THEN Cardinality(rows) = 1 /\ \A r \in rows : CarriesFields(r, d)
              ELSE actors' = actors ]_vars

\* an upsert has overwritten a stored row with other fields
C1_Witness ==
  /\ last.op = "UpsertActor" /\ last.result = "ok" /\ last.hadActor
  /\ last.d = Some(Carol2)
  /\ \E r \in actors : r.uri = CarolUri /\ CarriesFields(r, Carol2) /\ r.id = 1
  /\ Cardinality(actors) > 1

\* C2: when a Follow from a remote actor R that has a URI and an inbox, naming
\* an existing local actor L, has been handled and the handler returned, one
\* Actor row for R is stored, exactly one FollowEdge (following = L,
\* follower = R) is stored, and exactly one activity was sent: an Accept from
\* L addressed to R.
C2_FollowAccepted ==
  (/\ last.op = "Follow" /\ last.result = "ok"
   /\ Get(last.d).id # None /\ Get(last.d).inboxId # None
   /\ ActorByUsername(users, actors, IdentifierOf(last.objectId)) # None) =>
    LET d == Get(last.d)
        L == Get(ActorByUsername(users, actors, IdentifierOf(last.objectId)))
        rows == RowsWithUri(actors, Get(d.id))
    IN /\ Cardinality(rows) = 1
       /\ \A r \in rows : EdgeCount(follows, L.id, r.id) = 1
       /\ Len(sent) = 1
       /\ sent[1].type = "Accept"
       /\ sent[1].sender = IdentifierOf(last.objectId)
       /\ sent[1].target = "actor"
       /\ Len(sent[1].recipients) = 1
       /\ sent[1].recipients[1].id = d.id
       /\ sent[1].recipients[1].inboxId = d.inboxId

\* what the handler stores instead: the edge of an accepted Follow has the id
\* of the followed user, not the id of that user's actor, as its following
C2_EdgeTowardsUserId ==
  (/\ last.op = "Follow" /\ last.result = "ok"
   /\ Get(last.d).id # None /\ Get(last.d).inboxId # None
   /\ ActorByUsername(users, actors, IdentifierOf(last.objectId)) # None) =>
    LET d == Get(last.d)
        u == Get(UserByUsername(users, IdentifierOf(last.objectId)))
        rows == RowsWithUri(actors, Get(d.id))
    IN /\ Cardinality(rows) = 1
       /\ \A r \in rows : EdgeCount(follows, u.id, r.id) = 1
       /\ Len(sent) = 1
       /\ sent[1].type = "Accept"
       /\ sent[1].sender = IdentifierOf(last.objectId)

\* C3: after a Follow from R naming local actor L and then an Undo of that
\* Follow sent by R, no FollowEdge (following = L, follower = R) is stored,
\* whatever the follows table held before the Follow.
C3_FollowThenUndo ==
  (last.op = "Undo" /\ last.result = "ok" /\ last.after = "Follow") =>
    ~EdgeBetween(users, actors, follows, IdentifierOf(last.objectId), Get(last.actorId))

\* the Undo, handled right after a Follow of alice by carol, removed the edge
\* (alice, carol) that was stored before the two
C3_Witness ==
  /\ last.op = "Undo" /\ last.result = "ok" /\ last.after = "Follow"
  /\ last.hadEdge /\ last.actorId = Some(CarolUri)
  /\ last.objectId = Some(getActorUri(Alice))

\* C4: an Undo of a Follow from R naming L, handled while no FollowEdge
\* (following = L, follower = R) is stored, returns normally and changes no
\* table.
C4_UndoWithoutEdge ==
  [][ (/\ last'.op = "Undo" /\ last'.result # "dropped"
       /\ ~EdgeBetween(users, actors, follows,
                       IdentifierOf(last'.objectId), Get(last'.actorId))) =>
        (last'.result = "ok" /\ tables' = tables) ]_vars

\* a repeated Undo, handled while another edge is stored
C4_Witness ==
  /\ last.op = "Undo" /\ last.result = "ok" /\ ~last.hadEdge
  /\ last.after = "Undo" /\ last.hadActor
  /\ Len(follows) >= 1

\* C5: a Follow or an Accept handled while its FollowEdge is already stored
\* returns without raising an error, and the pair still has one edge.
C5_AddEdgeIdempotent ==
  (last.op \in {"Follow", "Accept"} /\ last.hadEdge) => last.result # "error"

\* the content names the user: an @ at the start or after a blank, the
\* username, and then a blank or the end
MentionsUser(c, u) ==
  \E i \in 1..Len(c) :
    /\ c[i] = "@"
    /\ (i = 1 \/ c[i - 1] = " ")
    /\ i + Len(u) <= Len(c)
    /\ SubSeq(c, i + 1, i + Len(u)) = u
    /\ (i + Len(u) = Len(c) \/ c[i + Len(u) + 1] = " ")

\* the mention notifications of the triple
MentionNotifications(ns, recipientId, postId, authorId) ==
  {n \in ns : /\ n.type = "mention"
              /\ n.recipient_actor_id = recipientId
              /\ n.related_post_id = postId
              /\ n.related_actor_id = authorId}

\* the activities handed over for direct delivery to the actor
DirectTo(out, uri) ==
  {i \in 1..Len(out) :
     /\ out[i].type = "Create" /\ out[i].target = "actor"
     /\ \E j \in 1..Len(out[i].recipients) : out[i].recipients[j].id = Some(uri)}

\* the activities handed over for the followers collection
Fanouts(out) ==
  {i \in 1..Len(out) : out[i].type = "Create" /\ out[i].target = "followers"}

\* C6: when processMentions runs for a post, a content and an author right
\* after a run for the same three, the second run inserts no notification, and
\* each mentioned local actor other than the author has exactly one mention
\* notification for the (recipient, post, author) triple
C6_SecondRunInsertsNothing ==
  [][(/\ last'.op = "ProcessMentions" /\ last'.result = "ok"
      /\ last'.after \in {"CreatePost", "ProcessMentions"})
     => /\ notifications' = notifications
        /\ \A u \in Usernames :
             LET r == ActorByUsername(users, actors, u)
             IN (/\ r # None
                 /\ MentionsUser(last'.content, u)
                 /\ Some(Get(r).id) # last'.author)
                => Cardinality(MentionNotifications(notifications', Get(r).id,
                                                    last'.post, last'.author)) = 1]_vars

\* a second run in a row for a post stored without mentions, whose
\* notification the first of the two runs inserted
C6_Witness ==
  /\ last.op = "ProcessMentions" /\ last.result = "ok" /\ last.after = "ProcessMentions"
  /\ \E p \in posts : p.id = Get(last.post) /\ p.content = ContentPlain
  /\ \E n \in notifications :
       /\ n.type = "mention"
       /\ n.related_post_id = last.post /\ n.related_actor_id = last.author

\* C7: there is at most one mention notification per (recipient, related
\* post, related actor) triple, also when two runs of
\* createMentionNotifications interleave their read and insert steps
C7_OneNotificationPerTriple ==
  \A n1, n2 \in notifications :
    (/\ n1.type = "mention" /\ n2.type = "mention"
     /\ n1.recipient_actor_id = n2.recipient_actor_id
     /\ n1.related_post_id = n2.related_post_id
     /\ n1.related_actor_id = n2.related_actor_id)
    => n1.id = n2.id

\* C8: there is at most one mention row per (post, mentioned actor) pair, for
\* every list given to saveMentions and every interleaving of two runs
C8_OneMentionPerPair ==
  \A m1, m2 \in mentions :
    (m1.post_id = m2.post_id /\ m1.mentioned_actor_id = m2.mentioned_actor_id)
    => m1.id = m2.id

\* C9: after a post is created, a mentioned local actor that follows the
\* author is a recipient of the follower fan-out and of no direct delivery
C9_NoDirectDeliveryToFollower ==
  (last.op = "CreatePost" /\ last.result = "ok")
  => \A u \in Usernames :
       LET m == ActorByUsername(users, actors, u)
       IN (/\ m # None
           /\ MentionsUser(last.content, u)
           /\ HasEdge(follows, Get(last.author), Get(m).id))
          => /\ DirectTo(sent, Get(m).uri) = {}
             /\ \E i \in Fanouts(sent) :
                  \E j \in 1..Len(sent[i].recipients) :
                    sent[i].recipients[j].id = Some(Get(m).uri)

\* a post that mentions bob while bob follows the author
C9_Witness ==
  /\ last.op = "CreatePost" /\ last.result = "ok"
  /\ MentionsUser(last.content, Bob)
  /\ ActorByUsername(users, actors, Bob) # None
  /\ HasEdge(follows, Get(last.author), Get(ActorByUsername(users, actors, Bob)).id)
  /\ Fanouts(sent) # {}

\* C10: when alice creates a post that mentions the registered user bob, the
\* step adds exactly one post, owned by alice's actor; the post has exactly
\* one mention row for bob and exactly one mention notification addressed to
\* bob with alice as related actor; one Create goes to alice's followers
\* collection, and one Create goes directly to bob exactly when bob does not
\* follow alice
C10_AlicePostsMentioningBob ==
  [][LET alice == ActorByUsername(users, actors, Alice)
         bob == ActorByUsername(users, actors, Bob)
     IN (/\ last'.op = "CreatePost" /\ last'.result = "ok"
         /\ alice # None /\ bob # None
         /\ last'.author = Some(Get(alice).id)
         /\ MentionsUser(last'.content, Bob))
        => /\ posts \subseteq posts'
           /\ Cardinality(posts' \ posts) = 1
           /\ \A p \in posts' \ posts :
                /\ p.actor_id = Get(alice).id
                /\ Some(p.id) = last'.post
                /\ Cardinality({m \in mentions' :
                                  /\ m.post_id = p.id
                                  /\ m.mentioned_actor_id = Get(bob).id}) = 1
                /\ Cardinality(MentionNotifications(notifications', Get(bob).id,
                                                    Some(p.id), Some(Get(alice).id))) = 1
           /\ Cardinality({i \in Fanouts(sent') : sent'[i].sender = Alice}) = 1
           /\ Cardinality(DirectTo(sent', Get(bob).uri)) =
                (IF HasEdge(follows, Get(alice).id, Get(bob).id) THEN 0 ELSE 1)]_vars

\* alice's post mentions bob, who does not follow her and is delivered to
C10_Witness ==
  /\ last.op = "CreatePost" /\ last.result = "ok"
  /\ last.author = Some(Get(ActorByUsername(users, actors, Alice)).id)
  /\ MentionsUser(last.content, Bob)
  /\ ActorByUsername(users, actors, Bob) # None
  /\ ~HasEdge(follows, Get(last.author), Get(ActorByUsername(users, actors, Bob)).id)
  /\ DirectTo(sent, Get(ActorByUsername(users, actors, Bob)).uri) # {}

\* the text is a name: one or more of letters, digits, _ . -
IsName(t) == Len(t) >= 1 /\ \A i \in 1..Len(t) : t[i] \in NameChar

\* the text is a domain: letters, digits, . - and then a dot and two or more
\* letters
IsDomain(d) ==
  \E k \in 2..(Len(d) - 2) :
    /\ d[k] = "."
    /\ \A i \in 1..(k - 1) : d[i] \in DomainChar
    /\ \A i \in (k + 1)..Len(d) : d[i] \in Letter

\* the text is a mention token: name or name@domain
IsToken(t) ==
  \/ IsName(t)
  \/ \E k \in 2..(Len(t) - 1) :
       /\ t[k] = "@"
       /\ IsName(SubSeq(t, 1, k - 1))
       /\ IsDomain(SubSeq(t, k + 1, Len(t)))

\* the lengths of the tokens that follow the @ at index i
TokenLens(c, i) == {k \in 1..(Len(c) - i) : IsToken(SubSeq(c, i + 1, i + k))}

\* the token the @ at index i starts: the longest one
TokenAt(c, i) ==
  SubSeq(c, i + 1, i + CHOOSE k \in TokenLens(c, i) : \A j \in TokenLens(c, i) : j <= k)

\* the indices of the @ that start a token: at the start of the text or after
\* white space
TokenStarts(c) ==
  {i \in 1..Len(c) : /\ c[i] = "@"
                     /\ (i = 1 \/ c[i - 1] \in Space)
                     /\ TokenLens(c, i) # {}}

\* the starts of the first appearance of each token
FirstAppearances(c) ==
  {i \in TokenStarts(c) : \A j \in TokenStarts(c) : j < i => TokenAt(c, j) # TokenAt(c, i)}

\* C11: parseMentions returns the tokens of the text, without the @ and as
\* written, each literal token once and in the order of its first appearance,
\* where a token starts only at an @ at the start of the text or after white
\* space; for "hi @alice and @bob@example.com @alice" it returns alice,
\* bob@example.com
C11_ParseMentions ==
  call.fn = "parseMentions"
  => /\ Len(call.result) = Cardinality(FirstAppearances(call.content))
     /\ \A n \in 1..Len(call.result) :
          \E i \in FirstAppearances(call.content) :
            /\ call.result[n] = TokenAt(call.content, i)
            /\ Cardinality({j \in FirstAppearances(call.content) : j < i}) = n - 1
     /\ (call.content = ExampleText
         => call.result = << <<"a", "l", "i", "c", "e">>,
                             <<"b", "o", "b", "@", "e", "x", "a", "m", "p", "l", "e",
                               ".", "c", "o", "m">> >>)

\* the example has been parsed
C11_Witness ==
  call.fn = "parseMentions" /\ call.content = ExampleText /\ Len(call.result) = 2

\* C12: findMentionedUsers returns, for a token name@domain, the actor whose
\* stored handle is @name@domain whenever there is one
C12_ResolvesFullHandle ==
  [][\A l \in TokenLists :
       call'.usernames = l /\ call'.failed = {} /\ ResolveMentions(l, {})
       => \A i \in 1..Len(l) :
            "@" \in Range(l[i])
            => \A r \in actors : r.handle = <<"@">> \o l[i] => r \in Range(call'.result)]_vars

\* the actor a token stands for: of a token without @, the actor of the local
\* user of that name, else (and for every other token) an actor whose handle
\* is the token
TokenActors(t) ==
  IF "@" \notin Range(t)
     /\ \E u \in users : u.username = t /\ \E r \in actors : r.user_id = Some(u.id)
  THEN {r \in actors : \E u \in users : u.username = t /\ r.user_id = Some(u.id)}
  ELSE {r \in actors : r.handle = t}

\* the indices of the tokens that resolve: no failed lookup and an actor
ResolvedAt(l, failed) == {i \in 1..Len(l) : i \notin failed /\ TokenActors(l[i]) # {}}

\* C13: findMentionedUsers returns, in input order, the actor of each token
\* that resolves; a token without an actor or with a failing lookup is left
\* out and the others are still resolved
C13_ResolvesEachTokenAlone ==
  [][\A l \in TokenLists : \A f \in SUBSET (1..Len(l)) :
       call'.usernames = l /\ call'.failed = f /\ ResolveMentions(l, f)
       => /\ Len(call'.result) = Cardinality(ResolvedAt(l, f))
          /\ \A n \in 1..Len(call'.result) :
               \E i \in ResolvedAt(l, f) :
                 /\ call'.result[n] \in TokenActors(l[i])
                 /\ Cardinality({j \in ResolvedAt(l, f) : j < i}) = n - 1]_vars

\* The note of a Create, and whether its attributed author is an actor whose
\* URI is the URI of the sender
IsNoteCreate(c) == c.object # None /\ Get(c.object).type = "Note" /\ c.actorId # None
AuthorOf(c) == Get(c.object).attribution
AuthorMatches(c) ==
  /\ AuthorOf(c) # None
  /\ Get(AuthorOf(c)).type \in ActorTypes
  /\ Get(AuthorOf(c)).doc.id = c.actorId

\* C14: a Create(Note) whose attributed author is not an actor, or whose
\* attributed author's URI differs from the URI of the activity's actor, inserts
\* no Post row and inserts or modifies no Actor row
C14_SpoofedCreateRejected ==
  [][\A c \in Creates :
       IsNoteCreate(c) /\ ~AuthorMatches(c) /\ OnCreate(c)
         => posts' = posts /\ actors' = actors]_vars

\* eve's Create of a note attributed to carol was processed while carol was
\* stored under other fields than the note's author document carries
C14_Witness ==
  /\ last.op = "Create" /\ last.result = "dropped"
  /\ last.actorId = Some(EveUri) /\ last.d = Some(Carol2)
  /\ ActorByUri(actors, CarolUri) # None
  /\ Get(ActorByUri(actors, CarolUri)).handle # getActorHandle(Carol2)


\* The Post rows stored under the id of the remote note
NotePosts(ps) == {p \in ps : p.uri = NoteUri}

\* C15: a Create(Note) that passes validation upserts its author and inserts
\* exactly one Post row, whose URI is the id of the remote note and whose
\* author is the upserted Actor
C15_ValidCreateStoresPost ==
  [][\A c \in ValidCreates :
       NotePosts(posts) = {} /\ OnCreate(c)
         => LET author == ActorByUri(actors', Get(c.actorId))
            IN /\ author # None
               /\ Cardinality(NotePosts(posts')) = 1
               /\ posts' \ posts = NotePosts(posts')
               /\ \A p \in NotePosts(posts') : p.actor_id = Get(author).id]_vars

\* C16: when the same Create(Note) is processed a second time, the listener
\* returns without raising and posts holds exactly one Post row with the URI
\* of the note
C16_DuplicateCreateTolerated ==
  [][\A c \in ValidCreates :
       /\ last.op = "Create" /\ last.result # "dropped"
       /\ last.actorId = c.actorId /\ last.objectId = Get(c.object).id
       /\ OnCreate(c)
       => /\ last'.result = "ok"
          /\ Cardinality(NotePosts(posts')) = 1]_vars


\* An Update whose object is a Person and that names its sender
IsPersonUpdate(u) == u.object # None /\ Get(u.object).type = "Person" /\ u.actorId # None

\* The rows r and s agree in every column but name and updated
SameButNameAndUpdated(r, s) == [s EXCEPT !.name = r.name, !.updated = r.updated] = r

\* C17: an Update(Person) inserts and deletes no Actor row; when the id of its
\* object differs from its actor or no Actor has the URI of its actor, no row
\* changes; otherwise only the row with that URI changes, and only in its
\* name and its updated timestamp
C17_UpdateChangesNameOnly ==
  [][\A u \in Updates :
       IsPersonUpdate(u) /\ OnUpdate(u)
         => /\ {r.id : r \in actors'} = {r.id : r \in actors}
            /\ Cardinality(actors') = Cardinality(actors)
            /\ IF \/ Get(u.object).id # u.actorId
                  \/ ActorByUri(actors, Get(u.actorId)) = None
               THEN actors' = actors
               ELSE \A r \in actors :
                      IF r.uri = Get(u.actorId)
                      THEN \E s \in actors' : s.id = r.id /\ SameButNameAndUpdated(r, s)
                      ELSE r \in actors']_vars

\* carol's Update of herself was processed while she was stored: her row has
\* the new name and timestamp and the handle and inbox it had
C17_Witness ==
  /\ last.op = "Update" /\ last.result = "ok" /\ last.actorId = Some(CarolUri)
  /\ \E r \in actors :
       /\ r.uri = CarolUri /\ r.name = Some("Caz") /\ r.updated = UpdateTime
       /\ r.handle = getActorHandle(Carol1) /\ r.url = Carol1.url
  /\ Cardinality(actors) = 2


\* C18: an activity of any kind with a content-level problem (no object, an
\* object of the wrong type, no or no resolvable actor, an object that is no
\* local actor, a note without id or content) makes its listener return
\* without raising, and adds no FollowEdge and no Post
C18_ContentProblemsAreDropped ==
  [][/\ \A f \in DroppedFollows \cup StrayFollows :
          OnFollow(f) => last'.result # "error" /\ follows' = follows /\ posts' = posts
     /\ \A u \in MalformedUndos \cup StrayUndos :
          OnUndo(u) => last'.result # "error" /\ follows' = follows /\ posts' = posts
     /\ \A a \in MalformedAccepts \cup StrayAccepts :
          OnAccept(a) => last'.result # "error" /\ follows' = follows /\ posts' = posts
     /\ \A c \in MalformedCreates \cup SpoofedCreates :
          OnCreate(c) => last'.result # "error" /\ follows' = follows /\ posts' = posts
     /\ \A u \in MalformedUpdates \cup ForeignUpdates :
          OnUpdate(u) => last'.result # "error" /\ follows' = follows /\ posts' = posts]_vars

\* The part of C18 that holds: the same, the Follows of a user that does not
\* exist left out
C18_DroppedOutsideStrayFollows ==
  [][/\ \A f \in DroppedFollows :
          OnFollow(f) => last'.result # "error" /\ follows' = follows /\ posts' = posts
     /\ \A u \in MalformedUndos \cup StrayUndos :
          OnUndo(u) => last'.result # "error" /\ follows' = follows /\ posts' = posts
     /\ \A a \in MalformedAccepts \cup StrayAccepts :
          OnAccept(a) => last'.result # "error" /\ follows' = follows /\ posts' = posts
     /\ \A c \in MalformedCreates \cup SpoofedCreates :
          OnCreate(c) => last'.result # "error" /\ follows' = follows /\ posts' = posts
     /\ \A u \in MalformedUpdates \cup ForeignUpdates :
          OnUpdate(u) => last'.result # "error" /\ follows' = follows /\ posts' = posts]_vars


\* C19: a Follow that has no object, whose object does not parse to an actor
\* URI of this server, or whose follower cannot be fetched is dropped: no
\* Accept is sent, no Actor is persisted and no FollowEdge is added
C19_UnusableFollowDropped ==
  [][\A f \in InboxFollows :
       /\ \/ f.objectId = None
          \/ Get(f.objectId).host # Host
          \/ Get(f.objectId).path # "users"
          \/ f.actor = None
       /\ OnFollow(f)
       => /\ sent' = <<>>
          /\ actors' = actors
          /\ follows' = follows
          /\ last'.result = "dropped"]_vars

\* a Follow was dropped after alice registered and carol followed her
C19_Witness ==
  /\ last.op = "Follow" /\ last.result = "dropped"
  /\ ActorByUsername(users, actors, Alice) # None
  /\ Len(follows) = 1


\* The deliveries of the activities of a request: (activity, inbox) pairs
Deliveries(out) ==
  UNION {{<<i, x>> : x \in extractInboxes(out[i].recipients)} : i \in 1..Len(out)}

IsStoredAs(ks, userId, keyType, p) == KeyRow(userId, keyType, p) \in ks

\* the rows keys holds for a user and a key type
KeysFor(ks, userId, keyType) == {k \in ks : k.user_id = userId /\ k.type = keyType}

\* C23: for a user that exists the key-pairs dispatcher returns two pairs, RSA
\* first and Ed25519 second, whatever is stored before: a stored pair is
\* returned as stored, a missing one is generated and stored, afterwards one
\* pair is stored for each key type and a repeated call returns the same
\* pairs; for an unknown user it returns no pair and stores nothing
C23_KeyPairsInOrder ==
  [][\A u \in {Alice, Zed} :
       DispatchKeyPairs(u)
       => LET d == dispatches'[Len(dispatches')]
              user == UserByUsername(users, u)
          IN IF user = None
             THEN d.pc = "done" /\ d.pairs = <<>> /\ keys' = keys
             ELSE LET id == Get(user).id
                  IN /\ d.pc = "done"
                     /\ Len(d.pairs) = 2
                     /\ d.pairs[1].privateKey[2] = "RSASSA-PKCS1-v1_5"
                     /\ d.pairs[2].privateKey[2] = "Ed25519"
                     /\ keys \subseteq keys'
                     /\ \A i \in 1..2 :
                          /\ d.pairs[i].privateKey[1] = "private"
                          /\ d.pairs[i].publicKey[1] = "public"
                          /\ d.pairs[i].publicKey[2] = d.pairs[i].privateKey[2]
                          /\ KeysFor(keys, id, KeyTypes[i]) # {}
                               => IsStoredAs(keys, id, KeyTypes[i], d.pairs[i])
                          /\ KeysFor(keys', id, KeyTypes[i])
                               = {KeyRow(id, KeyTypes[i], d.pairs[i])}
                     /\ getOrCreateKeyPairs(users', keys', u, 0).pairs = d.pairs
                     /\ getOrCreateKeyPairs(users', keys', u, 0).keys = keys']_vars

\* the dispatcher was called whole for alice while only her RSA pair was stored
C23_Witness ==
  \E i \in 1..Len(dispatches) :
    /\ dispatches[i].alone /\ dispatches[i].pc = "done"
    /\ dispatches[i].identifier = Alice
    /\ {r.type : r \in dispatches[i].rows} = {"RSASSA-PKCS1-v1_5"}
    /\ Len(dispatches[i].pairs) = 2

\* C24: when calls of the dispatcher for one user interleave, keys holds at
\* most one pair for each user and key type, every call that returned for a
\* user returned the pairs stored for that user, and a call whose insert
\* failed returned no pair
C24_InterleavedDispatches ==
  /\ \A k \in keys : KeysFor(keys, k.user_id, k.type) = {k}
  /\ \A i \in 1..Len(dispatches) :
       LET d == dispatches[i]
       IN /\ (d.pc = "done" /\ d.user # None)
             => /\ Len(d.pairs) = Len(KeyTypes)
                /\ \A j \in 1..Len(KeyTypes) :
                     IsStoredAs(keys, Get(d.user), KeyTypes[j], d.pairs[j])
          /\ d.pc = "failed" => d.pairs = <<>>

\* two calls for alice selected no rows; one returned two pairs and the other
\* failed
C24_Witness ==
  \E i, j \in 1..Len(dispatches) :
    /\ i # j
    /\ ~dispatches[i].alone /\ ~dispatches[j].alone
    /\ dispatches[i].user # None /\ dispatches[j].user = dispatches[i].user
    /\ dispatches[i].at > 1 /\ dispatches[j].at = 1
    /\ dispatches[i].rows = {} /\ dispatches[j].rows = {}
    /\ dispatches[i].pc = "done" /\ Len(dispatches[i].pairs) = 2
    /\ dispatches[j].pc = "failed"


\* The rows of the follower and of the followed actor of an edge
FollowerOf(e) == CHOOSE r \in actors : r.id = e.follower_id
FollowingOf(e) == CHOOSE r \in actors : r.id = e.following_id

\* C21: a FollowEdge from a local actor L to a remote actor R exists only if L
\* sent a Follow to R through the follow route, R's Accept was processed, and
\* L has not unfollowed R since
C21_EdgeOnlyAfterRequest ==
  \A i \in 1..Len(follows) :
    LET L == FollowerOf(follows[i])
        R == FollowingOf(follows[i])
    IN (L.user_id # None /\ R.user_id = None)
         => \E u \in users : L.user_id = Some(u.id) /\ <<u.username, R.uri>> \in requested


\* the indices of the edges of fs that gs no longer holds
RemovedEdges(fs, gs) == {i \in 1..Len(fs) : fs[i] \notin Range(gs)}

\* C22: an Undo(Follow) sent by actor X removes at most one FollowEdge, the one
\* whose following is the local actor the inner Follow names and whose
\* follower is X; it removes no edge of another follower and adds none
C22_UndoRemovesOwnEdgeOnly ==
  [][\A u \in UndoActivities :
       OnUndo(u)
       => LET removed == RemovedEdges(follows, follows')
          IN /\ Cardinality(removed) <= 1
             /\ Len(follows') = Len(follows) - Cardinality(removed)
             /\ Range(follows') \subseteq Range(follows)
             /\ \A i \in removed :
                  /\ u.actorId # None /\ u.object # None
                  /\ FollowerOf(follows[i]).uri = Get(u.actorId)
                  /\ FollowingOf(follows[i]).user_id # None
                  /\ \E w \in users :
                       /\ FollowingOf(follows[i]).user_id = Some(w.id)
                       /\ w.username = IdentifierOf(Get(u.object).objectId)]_vars

\* carol undid her Follow of a local actor while bob followed carol: the edge
\* of bob is still stored
C22_Witness ==
  /\ last.op = "Undo" /\ last.result = "ok" /\ last.hadEdge
  /\ last.actorId = Some(CarolUri)
  /\ Len(follows) = 1
  /\ FollowerOf(follows[1]).uri = getActorUri(Bob)
  /\ FollowingOf(follows[1]).uri = CarolUri

\* the notifications a session of the user may not touch: all of them when the
\* user has no actor, else those addressed to another actor
NotOf(ns, username) ==
  {n \in ns : SessionActor(username) = None
              \/ n.recipient_actor_id # Get(SessionActor(username)).id}

\* the requests of the notification routes
NotificationOps == {"MarkRead", "MarkAllRead", "DeleteNotification", "ClearNotifications"}

\* C25: the notification routes are scoped to the caller. Whatever route a
\* session runs, the notifications addressed to any other actor stay the same
\* rows with the same read flags; and mark-one-read or delete-one with an id
\* that names no notification of the caller's actor changes nothing at all.
C25_RoutesScopedToCaller ==
  [][\A u \in Usernames \cup {Zed} :
       /\ (last'.op \in NotificationOps /\ last'.actorId = Some(getActorUri(u)))
          => NotOf(notifications', u) = NotOf(notifications, u)
       /\ (/\ last'.op \in {"MarkRead", "DeleteNotification"}
           /\ last'.actorId = Some(getActorUri(u))
           /\ \A n \in notifications : Some(n.id) = last'.id => n \in NotOf(notifications, u))
          => notifications' = notifications]_vars

\* alice asked to delete a notification addressed to bob, and it is still there, unread
C25_Witness ==
  /\ last.op = "DeleteNotification" /\ last.result = "ok"
  /\ last.actorId = Some(getActorUri(Alice))
  /\ ActorByUsername(users, actors, Bob) # None
  /\ \E n \in notifications :
       /\ last.id = Some(n.id)
       /\ n.is_read = 0
       /\ n.recipient_actor_id = Get(ActorByUsername(users, actors, Bob)).id

\* C26: processMentions creates a notification only for an actor it newly
\* recorded as mentioned: when it runs for a stored post, no notification it
\* adds is addressed to an actor that already had a Mention row of the post.
C26_OnlyNewlyMentionedNotified ==
  [][\A r \in NotifyRetries :
       ProcessMentions(r[1], r[2], r[3])
       => \A n \in notifications' \ notifications :
            n.recipient_actor_id \notin ExistingMentions(mentions, r[1])]_vars

\* C27: no mention notification is addressed to the author of its post. A run
\* of processMentions, in the post route or again for a stored post, adds no
\* notification for the author, also when the content mentions the author,
\* while every other mentioned local actor has exactly one notification for
\* the post and the author once the run is over.
C27_AuthorNeverNotified ==
  [][/\ \A n \in notifications' :
          n.type = "mention" => Some(n.recipient_actor_id) # n.related_actor_id
     /\ (/\ last'.op \in {"CreatePost", "ProcessMentions"}
         /\ last'.result = "ok" /\ last'.author # None)
        => /\ \A n \in notifications' \ notifications :
                Some(n.recipient_actor_id) # last'.author
           /\ \A u \in Usernames :
                LET r == ActorByUsername(users, actors, u)
                IN (/\ r # None
                    /\ MentionsUser(last'.content, u)
                    /\ Some(Get(r).id) # last'.author)
                   => Cardinality(MentionNotifications(notifications', Get(r).id,
                                                       last'.post, last'.author)) = 1]_vars

\* alice's post mentions alice and bob: bob has the notification, alice has none
C27_Witness ==
  /\ last.op = "CreatePost" /\ last.result = "ok"
  /\ MentionsUser(last.content, Alice) /\ MentionsUser(last.content, Bob)
  /\ ActorByUsername(users, actors, Alice) # None
  /\ ActorByUsername(users, actors, Bob) # None
  /\ last.author = Some(Get(ActorByUsername(users, actors, Alice)).id)
  /\ MentionNotifications(notifications, Get(ActorByUsername(users, actors, Bob)).id,
                          last.post, last.author) # {}
  /\ MentionNotifications(notifications, Get(last.author), last.post, last.author) = {}

\* C28: when a Follow from a remote actor R that has a URI and an inbox, naming
\* an existing local actor L, has been accepted, a notification of type follow
\* addressed to L with R as related actor is stored.
C28_FollowCreatesNotification ==
  (/\ last.op = "Follow" /\ last.result = "ok"
   /\ Get(last.d).id # None /\ Get(last.d).inboxId # None
   /\ ActorByUsername(users, actors, IdentifierOf(last.objectId)) # None) =>
    LET L == Get(ActorByUsername(users, actors, IdentifierOf(last.objectId)))
    IN \E n \in notifications :
         /\ n.type = "follow"
         /\ n.recipient_actor_id = L.id
         /\ \E r \in RowsWithUri(actors, Get(Get(last.d).id)) :
              n.related_actor_id = Some(r.id)

\* the user whose actor wrote the post, if it is a local one
LocalAuthors(p) == {u \in users : \E a \in actors : a.id = p.actor_id /\ a.user_id = Some(u.id)}

\* C29: local post creation is atomic. Every stored post of a local actor has
\* the URI derived from the author's username and the post's own id and never
\* the placeholder, two stored posts never share a URI, and when the backfill
\* fails the tables are left as they were and hold no row with the id of the
\* failed post.
C29_PostCreationAtomic ==
  [][/\ \A p \in posts' :
          /\ p.uri # PlaceholderUri
          /\ \A u \in LocalAuthors(p) : p.uri = getObjectUri(u.username, p.id)
     /\ \A p, q \in posts' : p.uri = q.uri => p = q
     /\ \A i \in 1..Len(runs) :
          (PostBackfill(i, TRUE) \/ (PostBackfill(i, FALSE) /\ last'.result = "error"))
          => /\ tables' = tables
             /\ \A p \in posts' : p.id # Get(runs[i].row).id]_vars

\* the backfill of alice's second post failed: the first post is stored with
\* its URI, and no row has the id of the second
C29_Witness ==
  /\ last.op = "PostBackfill" /\ last.result = "error"
  /\ \E p \in posts : p.uri = getObjectUri(Alice, p.id)
  /\ \A p \in posts : Some(p.id) # last.post

\* the actor row of the user
OwnActor(as, username) == {r \in as : r.uri = getActorUri(username)}

\* C30: delivery follows the stored change it reports. The step that hands the
\* Create of a post over runs while the post is stored with its final URI; the
\* step that hands the Update of a profile over, right after the update
\* statement of the same request, runs while the user's actor row holds the
\* submitted name; the step that hands the Undo(Follow) over, right after the
\* delete of the same request, runs while the edge is gone; and none of these
\* steps, whether the delivery returns or raises, changes posts, actors or follows.
C30_DeliveryFollowsCommit ==
  [][\A i \in 1..Len(runs), delivers \in BOOLEAN :
       /\ PostDeliver(i, delivers)
          => /\ sent' # <<>>
                => \E p \in posts :
                     /\ p.id = Get(runs[i].row).id
                     /\ p.uri = getObjectUri(runs[i].username, p.id)
             /\ posts' = posts /\ actors' = actors /\ follows' = follows
       /\ \A failed \in SUBSET (1..Len(runs[i].mentioned)) :
            PostDirect(i, failed)
            => /\ sent' # <<>>
                  => \E p \in posts :
                       /\ p.id = Get(runs[i].row).id
                       /\ p.uri = getObjectUri(runs[i].username, p.id)
               /\ posts' = posts /\ actors' = actors /\ follows' = follows
       /\ ProfileSend(i, delivers)
          => /\ (sent' # <<>> /\ last.op = "ProfileStore" /\ last.result = "ok"
                 /\ last.actorId = Some(getActorUri(runs[i].username)))
                => \A r \in OwnActor(actors, runs[i].username) :
                     r.name = NameOrNull(runs[i].name)
             /\ posts' = posts /\ actors' = actors /\ follows' = follows
       /\ UnfollowSend(i, delivers)
          => /\ (sent' # <<>> /\ last.op = "UnfollowDelete" /\ last.result = "ok"
                 /\ last.actorId = Some(getActorUri(runs[i].username))
                 /\ last.id = runs[i].targetId)
                => ~HasEdge(follows, Get(runs[i].targetId), runs[i].actorId)
             /\ posts' = posts /\ actors' = actors /\ follows' = follows]_vars

\* the same for the post route and the unfollow route alone
C30_CreateAndUndoFollowCommit ==
  [][\A i \in 1..Len(runs), delivers \in BOOLEAN :
       /\ PostDeliver(i, delivers)
          => /\ sent' # <<>>
                => \E p \in posts :
                     /\ p.id = Get(runs[i].row).id
                     /\ p.uri = getObjectUri(runs[i].username, p.id)
             /\ posts' = posts /\ actors' = actors /\ follows' = follows
       /\ \A failed \in SUBSET (1..Len(runs[i].mentioned)) :
            PostDirect(i, failed)
            => /\ sent' # <<>>
                  => \E p \in posts :
                       /\ p.id = Get(runs[i].row).id
                       /\ p.uri = getObjectUri(runs[i].username, p.id)
               /\ posts' = posts /\ actors' = actors /\ follows' = follows
       /\ ProfileSend(i, delivers)
          => posts' = posts /\ actors' = actors /\ follows' = follows
       /\ UnfollowSend(i, delivers)
          => /\ (sent' # <<>> /\ last.op = "UnfollowDelete" /\ last.result = "ok"
                 /\ last.actorId = Some(getActorUri(runs[i].username))
                 /\ last.id = runs[i].targetId)
                => ~HasEdge(follows, Get(runs[i].targetId), runs[i].actorId)
             /\ posts' = posts /\ actors' = actors /\ follows' = follows]_vars

\* C31: failures of the direct deliveries are isolated per recipient. Whatever
\* set of turns of the loop over the mentioned actors raises (the follower
\* check or the delivery), the step hands a direct Create over for every other
\* mentioned actor that is not a follower of the author, the loop reaches its
\* end, and the request ends with its redirect, not with an error.
C31_DirectFailuresIsolated ==
  [][\A i \in 1..Len(runs) :
       \A failed \in SUBSET (1..Len(runs[i].mentioned)) :
         PostDirect(i, failed)
         => /\ last'.op = "PostDirect" /\ last'.result = "ok"
            /\ runs' = Without(runs, i)
            /\ \A n \in 1..Len(runs[i].mentioned) :
                 (/\ n \notin failed
                  /\ ~HasEdge(follows, runs[i].actorId, runs[i].mentioned[n].id))
                 => DirectTo(sent', runs[i].mentioned[n].uri) # {}]_vars

\* a post of alice that mentions alice and bob, neither a follower: the turn
\* for alice raised and bob was still delivered to
C31_Witness ==
  /\ last.op = "PostDirect" /\ last.result = "ok"
  /\ last.content = ContentAB
  /\ follows = <<>>
  /\ ActorByUsername(users, actors, Bob) # None
  /\ DirectTo(sent, getActorUri(Alice)) = {}
  /\ DirectTo(sent, getActorUri(Bob)) # {}

\* how many times the activities in out target the actor uri with a Create:
\* the fan-outs that list it and the direct deliveries to it
TimesTargeted(out, uri) ==
  Cardinality({i \in Fanouts(out) :
                 \E j \in 1..Len(out[i].recipients) : out[i].recipients[j].id = Some(uri)})
  + Cardinality(DirectTo(out, uri))

\* C37: when the loop over the mentioned actors ends with no turn raising,
\* every mentioned actor has been targeted by the Create of the request exactly
\* once, as an item of the follower fan-out or by a direct delivery, whatever
\* was processed between the fan-out and the loop.
C37_MentionedTargetedOnce ==
  [][\A i \in 1..Len(runs) :
       PostDirect(i, {})
       => \A n \in 1..Len(runs[i].mentioned) :
            TimesTargeted(sent', runs[i].mentioned[n].uri) = 1]_vars

\* the same for a loop that runs right after the fan-out of its request
C37_TargetedOnceWhenNothingIntervenes ==
  [][\A i \in 1..Len(runs) :
       (/\ PostDirect(i, {})
        /\ last.op = "PostDeliver" /\ last.result = "ok"
        /\ last.post = Some(Get(runs[i].row).id))
       => \A n \in 1..Len(runs[i].mentioned) :
            TimesTargeted(sent', runs[i].mentioned[n].uri) = 1]_vars

\* C32: an unfollow of the actor with the id T by the registered user alice
\* removes the edge (following T, follower alice's actor) and nothing else: the
\* other edges stay, in their order; when no such edge is stored, as after a
\* first unfollow, follows is unchanged; and whether the Undo(Follow) is
\* delivered or raises, the edge stays removed and the request ends with its
\* redirect.
C32_UnfollowRemovesExactlyTheEdge ==
  [][\A id \in UnfollowIds, delivers \in BOOLEAN :
       (Unfollow(Alice, Alice, id, delivers) /\ ActorByUsername(users, actors, Alice) # None)
       => LET me == Get(ActorByUsername(users, actors, Alice))
              edge == [following_id |-> id, follower_id |-> me.id]
          IN /\ follows' = SelectSeqBy(follows, {i \in 1..Len(follows) : follows[i] # edge})
             /\ edge \notin Range(follows) => follows' = follows
             /\ edge \notin Range(follows')
             /\ last'.result = "ok"
             /\ ~delivers => sent' = <<>>]_vars

\* an unfollow whose Undo(Follow) was not delivered removed alice's edge to one
\* actor and left her edge to another
C32_Witness ==
  /\ last.op = "Unfollow" /\ last.result = "ok" /\ last.hadEdge
  /\ sent = <<>>
  /\ ActorByUsername(users, actors, Alice) # None
  /\ \E i \in 1..Len(follows) :
       follows[i].follower_id = Get(ActorByUsername(users, actors, Alice)).id

\* C33: after every step of any interleaving of registrations, rejected,
\* failing and concurrent ones for the same username included, every user has
\* exactly one actor row, every actor row linked to a user is linked to
\* exactly one stored user, no two users share a username, and a transaction
\* that ends with an error leaves users and actors as they were.
C33_RegistrationInvariants ==
  [][/\ \A u \in users' : Cardinality({r \in actors' : r.user_id = Some(u.id)}) = 1
     /\ \A r \in actors' :
          r.user_id # None => Cardinality({u \in users' : Some(u.id) = r.user_id}) = 1
     /\ \A u, v \in users' : u.username = v.username => u = v
     /\ \A i \in 1..Len(runs), raises \in BOOLEAN :
          (RegisterStore(i, raises) /\ last'.result = "error")
          => users' = users /\ actors' = actors]_vars

\* the second of two registrations of alice that both passed the check of the
\* username has failed, with alice and carol stored
C33_Witness ==
  /\ last.op = "RegisterStore" /\ last.result = "error"
  /\ last.actorId = Some(getActorUri(Alice))
  /\ UserByUsername(users, Alice) # None
  /\ \E r \in actors : r.user_id = None

\* the edges whose following is the actor with the id, oldest first
EdgesTowards(fs, followingId) ==
  SelectSeqBy(fs, {i \in 1..Len(fs) : fs[i].following_id = followingId})

DeliveredAccepts(out) ==
  {i \in 1..Len(out) : out[i].type = "Accept" /\ extractInboxes(out[i].recipients) # {}}

\* C35: whenever the Follow handler has sent an Accept in the name of the local
\* user L to the actor R, the FollowEdge (following = L's actor, follower = R)
\* is stored: no Accept goes out for a user without an actor or for an edge
\* that was not stored.
C35_AcceptOnlyWithEdge ==
  \A i \in DeliveredAccepts(sent) :
    \A j \in 1..Len(sent[i].recipients) :
      /\ ActorByUsername(users, actors, sent[i].sender) # None
      /\ EdgeBetween(users, actors, follows, sent[i].sender,
                     Get(sent[i].recipients[j].id))

\* what holds instead: an Accept goes out only in the name of a user that has
\* an actor, and only with a follows row stored whose following is the id of
\* that user and whose follower is the recipient
C35_AcceptOnlyWithStoredRow ==
  \A i \in DeliveredAccepts(sent) :
    \A j \in 1..Len(sent[i].recipients) :
      /\ ActorByUsername(users, actors, sent[i].sender) # None
      /\ \E r \in RowsWithUri(actors, Get(sent[i].recipients[j].id)) :
           HasEdge(follows, Get(UserByUsername(users, sent[i].sender)).id, r.id)

\* the notes without id or content: Creates that pass the checks of the author
NotesWithoutIdOrContent ==
  {c \in MalformedCreates :
     c.actorId # None /\ c.object # None /\ Get(c.object).type = "Note"}

\* C36: an inbound activity that ends up dropped, adding no FollowEdge and no
\* Post (a Follow, Undo or Accept that is malformed, names a user that does
\* not exist or comes from a rejected document; a Create that is malformed,
\* spoofed, from an author without inbox, or whose note has no id or no
\* content; a malformed or foreign Update), leaves every table as it was.
C36_DroppedLeavesTablesUnchanged ==
  [][/\ \A f \in DroppedFollows \cup StrayFollows \cup RejectedFollows :
          OnFollow(f) => tables' = tables
     /\ \A u \in MalformedUndos \cup StrayUndos :
          OnUndo(u) => tables' = tables
     /\ \A a \in MalformedAccepts \cup StrayAccepts \cup RejectedAccepts :
          OnAccept(a) => tables' = tables
     /\ \A c \in MalformedCreates \cup SpoofedCreates \cup NoInboxCreates :
          OnCreate(c) => tables' = tables
     /\ \A u \in MalformedUpdates \cup ForeignUpdates :
          OnUpdate(u) => tables' = tables]_vars

\* the same without the activities that are dropped only after persistActor
\* ran: the Follows and Accepts that name a user that does not exist and the
\* notes without id or content
C36_DroppedBeforePersistActor ==
  [][/\ \A f \in DroppedFollows \cup RejectedFollows :
          OnFollow(f) => tables' = tables
     /\ \A u \in MalformedUndos \cup StrayUndos :
          OnUndo(u) => tables' = tables
     /\ \A a \in MalformedAccepts \cup RejectedAccepts :
          OnAccept(a) => tables' = tables
     /\ \A c \in (MalformedCreates \ NotesWithoutIdOrContent)
                 \cup SpoofedCreates \cup NoInboxCreates :
          OnCreate(c) => tables' = tables
     /\ \A u \in MalformedUpdates \cup ForeignUpdates :
          OnUpdate(u) => tables' = tables]_vars

\* the sessions of the requests: the tokens of kim, alice and bob, and none
Sessions == {Kim, Alice, Bob, Zed}

\* the posts submitted under the sessions
SessionContents == {ContentPlain}

\* C38: every Post created through the post route is owned by the Actor of
\* the authenticated user who made the request, and every Follow sent through
\* the follow route is sent in the name of the authenticated user: a user
\* cannot post or follow as another local user by using that user's username
\* in the route.
C38_RoutesActAsSessionUser ==
  [][\A s \in Sessions, u \in Usernames :
       /\ \A c \in SessionContents :
            CreatePost(s, u, c) /\ last'.result = "ok"
              => /\ SessionActor(s) # None
                 /\ last'.author = Some(Get(SessionActor(s)).id)
       /\ \A d \in FollowTargets :
            RequestFollow(s, u, d) => \A k \in 1..Len(sent') : sent'[k].sender = s]_vars

\* what the routes do: a request without an authenticated user changes
\* nothing and sends nothing, and a request with one acts for the user of the
\* path, whoever the authenticated user is
C38_RoutesActAsPathUser ==
  [][\A s \in Sessions, u \in Usernames :
       /\ \A c \in SessionContents :
            CreatePost(s, u, c)
              => IF AuthUser(users, s) = None
                 THEN tables' = tables /\ sent' = <<>>
                 ELSE last'.result = "ok"
                        => last'.author = Some(Get(ActorByUsername(users, actors, u)).id)
       /\ \A d \in FollowTargets :
            RequestFollow(s, u, d)
              => IF AuthUser(users, s) = None
                 THEN sent' = <<>>
                 ELSE \A k \in 1..Len(sent') : sent'[k].sender = u]_vars

\* the documents upsertActor is given: the remote ones, and the document this
\* server serves for alice once she registered
UpsertDescriptors == RemoteDescriptors \cup
  (IF ActorDoc(users, actors, Alice) = None THEN {} ELSE {Get(ActorDoc(users, actors, Alice))})

\* the Follows that store edges towards the actors with ids 1 and 2
UpsertFollows ==
  {[actor |-> Some(d), objectId |-> Some(getActorUri(Bob))] : d \in {Carol1, Eve}}

\* every stored row is still there with its id, URI, user link and creation
\* time, and every row with another URI than uri with all its columns
KeepsIdentity(as, after, uri) ==
  \A r \in as : \E s \in after :
    /\ s.id = r.id /\ s.uri = r.uri /\ s.user_id = r.user_id /\ s.created = r.created
    /\ (Some(r.uri) # uri => s = r)

\* every reference of a table to an Actor row is to the row it was to
SameReferences ==
  /\ follows' = follows /\ posts' = posts
  /\ mentions' = mentions /\ notifications' = notifications

\* C39 as stated: upsertActor on a stored URI never changes the row's id, user
\* link or creation time nor any other Actor row, and leaves every FollowEdge,
\* Post, Mention and Notification as it was; the number of Actor rows grows
\* by exactly one when the URI is new and stays the same otherwise.
C39_GrowsByOneWhenUriIsNew ==
  [][\A d \in UpsertDescriptors :
       UpsertActor(d) =>
         /\ KeepsIdentity(actors, actors', d.id)
         /\ SameReferences
         /\ Cardinality(actors') =
              Cardinality(actors) + (IF ActorByUri(actors, Get(d.id)) = None THEN 1 ELSE 0)]_vars

\* C39 amended: upsertActor never changes the id, URI, user link or creation
\* time of a stored row nor any column of a row with another URI, and leaves
\* every FollowEdge, Post, Mention and Notification as it was; the number of
\* Actor rows grows by exactly one when the URI is new and the call returns a
\* row, and stays the same otherwise (the URI is stored, the descriptor is
\* rejected, or the insert raises).
C39_UpsertKeepsIdentity ==
  [][\A d \in UpsertDescriptors :
       UpsertActor(d) =>
         /\ KeepsIdentity(actors, actors', d.id)
         /\ SameReferences
         /\ Cardinality(actors') =
              Cardinality(actors)
              + (IF ActorByUri(actors, Get(d.id)) = None /\ last'.result = "ok"
                 THEN 1 ELSE 0)]_vars

\* an upsert has overwritten the stored row of carol, which a FollowEdge
\* references, next to the rows of local users that a Post, a Mention and a
\* Notification reference
C39_Witness ==
  /\ last.op = "UpsertActor" /\ last.result = "ok" /\ last.hadActor
  /\ last.d = Some(Carol2)
  /\ \E r \in actors :
       /\ r.uri = CarolUri /\ r.name = Carol2.name
       /\ \E i \in 1..Len(follows) : follows[i].follower_id = r.id
  /\ \E r \in actors : r.user_id # None /\ \E p \in posts : p.actor_id = r.id
  /\ \E r \in actors :
       /\ r.user_id # None
       /\ \E m \in mentions : m.mentioned_actor_id = r.id
       /\ \E n \in notifications : n.recipient_actor_id = r.id

\* an upsert of the document of alice has left her row linked to her user
C39_LocalRowKeepsUser ==
  /\ last.op = "UpsertActor" /\ last.result = "ok" /\ last.hadActor
  /\ last.actorId = Some(getActorUri(Alice))
  /\ \E r \in actors : r.uri = getActorUri(Alice) /\ r.user_id # None


\* a call whose first token fails and whose second token resolves
C13_Witness ==
  /\ call.fn = "findMentionedUsers"
  /\ call.usernames = <<Alice, Alice>> /\ call.failed = {1}
  /\ Len(call.result) = 1 /\ call.result[1].uri = getActorUri(Alice)

Next ==
  \/ \E u \in Usernames, n \in Names : Register(u, n)
  \/ \E d \in RemoteDescriptors : UpsertActor(d)
  \/ \E f \in FollowActivities : OnFollow(f)
  \/ \E u \in UndoActivities : OnUndo(u)
  \/ \E a \in AcceptActivities : OnAccept(a)

Spec == Init /\ [][Next]_vars

\* Posting: registration, the follow graph of alice, the post route and retries
\* of processMentions, one request at a time
NextPost ==
  \/ \E u \in Registrations, n \in Names : Register(u, n)
  \/ \E f \in PostFollowActivities : OnFollow(f)
  \/ \E u \in PostUndoActivities : OnUndo(u)
  \/ \E r \in PostRequests : CreatePost(r[1], r[1], r[2])
  \/ \E r \in Retries : ProcessMentions(r[1], r[2], r[3])

SpecPost == Init /\ [][NextPost]_vars

\* The mention functions called for stored posts, their steps interleaved
NextMentions ==
  \/ \E u \in Registrations, n \in Names : Register(u, n)
  \/ CreatePost(Alice, Alice, ContentPlain)
  \/ \E p \in PostIds, l \in SaveLists : CallSaveMentions(p, l)
  \/ \E p \in PostIds, a \in AuthorIds, l \in NotifyLists :
       CallCreateMentionNotifications(p, a, l)
  \/ \E i \in 1..Len(runs) : SaveMentionsRead(i)
  \/ \E i \in 1..Len(runs) : SaveMentionsInsert(i)
  \/ \E i \in 1..Len(runs) : NotificationsRead(i)
  \/ \E i \in 1..Len(runs) : NotificationsInsert(i)

SpecMentions == Init /\ [][NextMentions]_vars

\* findMentionedUsers called on a directory of local and remote actors
NextResolve ==
  \/ \E n \in Names : Register(Alice, n)
  \/ UpsertActor(Carol1)
  \/ \E l \in TokenLists : \E f \in SUBSET (1..Len(l)) : ResolveMentions(l, f)

SpecResolve == Init /\ [][NextResolve]_vars

\* The inbox with all five listeners, behind the registration of alice
NextInbox ==
  \/ \E n \in Names : Register(Alice, n)
  \/ \E f \in InboxFollows : OnFollow(f)
  \/ \E u \in InboxUndos : OnUndo(u)
  \/ \E a \in InboxAccepts : OnAccept(a)
  \/ \E c \in Creates : OnCreate(c)
  \/ \E u \in Updates : OnUpdate(u)

SpecInbox == Init /\ [][NextInbox]_vars

\* The key-pairs dispatcher, called whole and called by requests that
\* interleave, for alice (before and after she registered) and for nobody
NextKeys ==
  \/ \E n \in Names : Register(Alice, n)
  \/ \E u \in {Alice, Zed} : DispatchKeyPairs(u)
  \/ \E u \in {Alice, Zed} : CallKeyPairs(u)
  \/ \E i \in 1..Len(dispatches) : KeysSelectUser(i)
  \/ \E i \in 1..Len(dispatches) : KeysSelectRows(i)
  \/ \E i \in 1..Len(dispatches) : KeysLoopRound(i)

SpecKeys == Init /\ [][NextKeys]_vars

\* alice following and unfollowing remote actors, and the Accepts that arrive
NextFollowing ==
  \/ \E u \in Founders, n \in Names : Register(u, n)
  \/ \E d \in FollowTargets : RequestFollow(Alice, Alice, d)
  \/ \E a \in InboxAccepts : OnAccept(a)
  \/ \E id \in UnfollowIds, delivers \in BOOLEAN : Unfollow(Alice, Alice, id, delivers)

SpecFollowing == Init /\ [][NextFollowing]_vars

\* the notification routes of alice, of bob and of a session without a user,
\* over the notifications posts and retries of processMentions create
NextNotify ==
  \/ \E u \in Registrations, n \in Names : Register(u, n)
  \/ \E r \in NotifyPosts : CreatePost(r[1], r[1], r[2])
  \/ \E r \in NotifyRetries : ProcessMentions(r[1], r[2], r[3])
  \/ \E u \in Usernames \cup {Zed}, t \in IdParams : MarkRead(u, t)
  \/ \E u \in Usernames \cup {Zed} : MarkAllRead(u)
  \/ \E u \in Usernames \cup {Zed}, t \in IdParams : DeleteNotification(u, t)
  \/ \E u \in Usernames \cup {Zed} : ClearNotifications(u)

SpecNotify == Init /\ [][NextNotify]_vars

\* the post, profile and unfollow routes of alice step by step, next to the
\* Accepts that make alice follow a remote actor
NextDelivery ==
  \/ \E u \in Founders, n \in Names : Register(u, n)
  \/ OnAccept(AcceptFollow(Some(Carol1), Some(getActorUri(Alice))))
  \/ \E c \in StepContents : PostInsert(Alice, Alice, c)
  \/ \E i \in 1..Len(runs), raises \in BOOLEAN : PostBackfill(i, raises)
  \/ \E i \in 1..Len(runs), delivers \in BOOLEAN : PostDeliver(i, delivers)
  \/ \E i \in 1..Len(runs) : \E failed \in SUBSET (1..Len(runs[i].mentioned)) :
       PostDirect(i, failed)
  \/ \E f \in ProfileForms : ProfileStore(Alice, Alice, f)
  \/ \E i \in 1..Len(runs), delivers \in BOOLEAN : ProfileSend(i, delivers)
  \/ \E id \in UnfollowIds : UnfollowDelete(Alice, Alice, id)
  \/ \E i \in 1..Len(runs), delivers \in BOOLEAN : UnfollowSend(i, delivers)

SpecDelivery == Init /\ [][NextDelivery]_vars

\* the post route step by step, with two local users, one of whom follows and
\* unfollows the other while a post is on its way
NextDirect ==
  \/ \E u \in Registrations, n \in Names : Register(u, n)
  \/ \E f \in PostFollowActivities : OnFollow(f)
  \/ \E u \in PostUndoActivities : OnUndo(u)
  \/ \E c \in DirectContents : PostInsert(Alice, Alice, c)
  \/ \E i \in 1..Len(runs), raises \in BOOLEAN : PostBackfill(i, raises)
  \/ \E i \in 1..Len(runs), delivers \in BOOLEAN : PostDeliver(i, delivers)
  \/ \E i \in 1..Len(runs) : \E failed \in SUBSET (1..Len(runs[i].mentioned)) :
       PostDirect(i, failed)

SpecDirect == Init /\ [][NextDirect]_vars

\* alice unfollowing the actors she follows and the ones she does not, with
\* edges to two remote actors
NextUnfollow ==
  \/ \E u \in Founders, n \in Names : Register(u, n)
  \/ \E a \in UnfollowAccepts : OnAccept(a)
  \/ \E id \in UnfollowIds, delivers \in BOOLEAN : Unfollow(Alice, Alice, id, delivers)

SpecUnfollow == Init /\ [][NextUnfollow]_vars

\* registrations step by step: the check of one request and the transaction
\* of another interleave, next to Follows that store remote actors
NextRegister ==
  \/ \E u \in RegisterUsernames, n \in Names : RegisterCheck(u, n)
  \/ \E i \in 1..Len(runs), raises \in BOOLEAN : RegisterStore(i, raises)
  \/ \E f \in RegisterFollows : OnFollow(f)

SpecRegister == Init /\ [][NextRegister]_vars

\* alice and bob gaining and losing remote followers while alice posts
NextFollowers ==
  \/ \E u \in Registrations, n \in Names : Register(u, n)
  \/ \E f \in FollowerFollows : OnFollow(f)
  \/ \E u \in FollowerUndos : OnUndo(u)
  \/ \E a \in FollowerAccepts : OnAccept(a)
  \/ CreatePost(Alice, Alice, ContentPlain)

SpecFollowers == Init /\ [][NextFollowers]_vars

\* the post and follow routes under every pairing of a session and a path
NextSession ==
  \/ \E u \in Registrations, n \in Names : Register(u, n)
  \/ \E s \in Sessions, u \in Usernames, c \in SessionContents : CreatePost(s, u, c)
  \/ \E s \in Sessions, u \in Usernames, d \in FollowTargets : RequestFollow(s, u, d)

SpecSession == Init /\ [][NextSession]_vars

\* upsertActor called for stored and for new URIs, next to the registrations,
\* Follows and posts that make rows of other tables reference the actors
NextUpsert ==
  \/ \E u \in Usernames, n \in Names : Register(u, n)
  \/ \E d \in UpsertDescriptors : UpsertActor(d)
  \/ \E f \in UpsertFollows : OnFollow(f)
  \/ \E u \in Usernames : CreatePost(u, u, ContentAB)

SpecUpsert == Init /\ [][NextUpsert]_vars

\* parseMentions applied to a text
NextParse == ParseMentions

SpecParse == InitParse /\ [][NextParse]_vars

====
